---- MODULE Spec2Model ----
(***************************************************************************)
(* A model of pisameet: the program/roster data model of                   *)
(* pisameet/program.py and the timer-driven display state machines of      *)
(* pisameet/gui.py.                                                        *)
(*                                                                         *)
(* Time is discrete.  A datetime is a natural number; the wall clock `now` *)
(* saturates at Horizon, an instant by which every session has ended, so   *)
(* that no comparison the code makes can tell later instants apart.        *)
(* A QTimer is the number of ticks left before it fires, or Inactive.       *)
(***************************************************************************)
EXTENDS Integers, Sequences, FiniteSets, TLC

\* ------------------------------------------------------------------------
\* Bounds of the model.
\* ------------------------------------------------------------------------
\* Largest datetime a program sheet may hold.
MaxTime == 2
\* Largest number of rows of a session sheet.
MaxRows == 2
\* Largest absolute value of an index handed to the select_by_* methods.
MaxIndex == 5
\* advance_interval and pause_interval (command-line options), in ticks.
AdvanceInterval == 1
PauseInterval == 2

\* ------------------------------------------------------------------------
\* Values.
\* ------------------------------------------------------------------------
\* Python's None, where a datetime or an index is expected.
None == -1
\* The NaN pandas gives for a blank cell of a sheet.
NaN == -2

\* The datetimes a sheet may hold, and the instant after all of them.
Times == 0 .. MaxTime
Horizon == MaxTime + 1

\* The screen identifiers of the installation.
Screens == {1, 2}

\* A date-time cell of the program sheet: text that strptime accepts (ok) and
\* then stands for the instant t, or text it rejects.
DateTexts == [ok : {TRUE}, t : Times] \cup {[ok |-> FALSE, t |-> 0]}

\* Python's % for a positive right operand: the result is in 0 .. b-1 also
\* for a negative a.  The integer division of TLA+ is the floor division.
PyMod_magnitude(a, b) == IF a >= 0 THEN a - b * (a \div b) ELSE (0 - a) - b * ((0 - a) \div b)

PyMod(a, b) == a - b * (a \div b)

\* ------------------------------------------------------------------------
\* program.py: PosterSession.
\* ------------------------------------------------------------------------
\* strptime(text, DATETIME_FORMAT), or None when it raises.
parse_datetime_or_epoch(text) == IF text.ok THEN text.t ELSE 0

parse_datetime(text) == IF text.ok THEN text.t ELSE None

\* A PosterSession object built from row number `row` of the program sheet.
\* Sessions are compared by identity in the code, hence the row number.
PosterSession(row, program_row) ==
    [row   |-> row,
     id_   |-> program_row.id_,
     start |-> parse_datetime(program_row.start),
     end   |-> parse_datetime(program_row.end)]

\* PosterSession.ongoing: current_datetime None means datetime.now().
ongoing_lax(session, current_datetime, wallclock) ==
    LET t == IF current_datetime = None THEN wallclock ELSE current_datetime
    IN  /\ session.start # None
        /\ session.end # None
        /\ session.start <= t
        /\ t <= session.end

ongoing(session, current_datetime, wallclock) ==
    LET t == IF current_datetime = None THEN wallclock ELSE current_datetime
    IN  /\ session.start # None
        /\ session.end # None
        /\ session.start <= t
        /\ t < session.end

\* PosterCollectionBase.session_list.
session_list(df) == [i \in 1 .. Len(df) |-> PosterSession(i, df[i])]

\* ------------------------------------------------------------------------
\* program.py: Poster.
\* ------------------------------------------------------------------------
\* Poster.from_df_row raises ValueError on a blank Screen ID: the cell is NaN,
\* from_df_row leaves it alone and Poster.__init__ calls int() on it.
from_df_row_raises(session_row) == session_row.screen_id = NaN

\* A pixmap attribute that is None.
NoPixmap == [folder |-> "", file |-> <<>>, scaled |-> ""]

\* The Poster object of a sheet row; the pixmaps and the position fields
\* start as None.
Poster(session_row) ==
    [friendly_id      |-> session_row.friendly_id,
     screen_id        |-> session_row.screen_id,
     poster_pixmap    |-> NoPixmap,
     presenter_pixmap |-> NoPixmap,
     qrcode_pixmap    |-> NoPixmap,
     session          |-> None,
     session_index    |-> None,
     program_index    |-> None]

\* ------------------------------------------------------------------------
\* program.py: the image files of a poster and its pixmaps.
\* ------------------------------------------------------------------------
\* The folders of the three asset roles, and the placeholders of __init__.py.
POSTER_FOLDER_NAME == "posters_raster"
PRESENTER_FOLDER_NAME == "presenters_crop"
QRCODE_FOLDER_NAME == "qrcodes"
MISSING_POSTER_PATH == [folder |-> "graphics/pisameet2024.png", file |-> <<>>]
MISSING_PICTURE_PATH == [folder |-> "graphics/unknown_female.png", file |-> <<>>]
MISSING_QRCODE_PATH == [folder |-> "graphics/unknown_qrcode.png", file |-> <<>>]

\* f'{poster_id:03d}.png': the decimal digits, padded with zeros to three.
_image_file_name(poster_id) ==
    IF poster_id >= 1000
    THEN <<poster_id \div 1000, (poster_id \div 100) % 10, (poster_id \div 10) % 10, poster_id % 10>>
    ELSE <<poster_id \div 100, (poster_id \div 10) % 10, poster_id % 10>>

\* _image_path_base: files is the set of files under the root folder.
_image_path_base(files, poster_id, folder_name, default) ==
    LET file_path == [folder |-> folder_name, file |-> _image_file_name(poster_id)]
    IN  IF file_path \notin files THEN default ELSE file_path

poster_image_path(files, poster_id) ==
    _image_path_base(files, poster_id, POSTER_FOLDER_NAME, MISSING_POSTER_PATH)

missing_poster_image(files, poster_id) ==
    poster_image_path(files, poster_id) = MISSING_POSTER_PATH

presenter_image_path(files, poster_id) ==
    _image_path_base(files, poster_id, PRESENTER_FOLDER_NAME, MISSING_PICTURE_PATH)

missing_presenter_image_as_poster(files, poster_id) ==
    presenter_image_path(files, poster_id) = MISSING_POSTER_PATH

missing_presenter_image(files, poster_id) ==
    presenter_image_path(files, poster_id) = MISSING_PICTURE_PATH

qrcode_image_path(files, poster_id) ==
    _image_path_base(files, poster_id, QRCODE_FOLDER_NAME, MISSING_QRCODE_PATH)

missing_qrcode_image(files, poster_id) ==
    qrcode_image_path(files, poster_id) = MISSING_QRCODE_PATH

\* Poster._load_pixmap_w and _load_pixmap_h: the file, scaled to the poster
\* width or to the portrait height.
_load_pixmap_w(file_path) == [folder |-> file_path.folder, file |-> file_path.file, scaled |-> "poster_width"]
_load_pixmap_h_to_width(file_path) == [folder |-> file_path.folder, file |-> file_path.file, scaled |-> "poster_width"]

_load_pixmap_h(file_path) == [folder |-> file_path.folder, file |-> file_path.file, scaled |-> "portrait_height"]

\* Poster.load_default_pixmaps: the placeholder poster and QR code.
load_default_pixmaps ==
    <<_load_pixmap_w(MISSING_POSTER_PATH), _load_pixmap_h(MISSING_QRCODE_PATH)>>

\* PosterCollectionBase.load_poster_pixmaps with Poster.load_pixmaps.
load_poster_pixmaps(files, poster) ==
    [poster EXCEPT
        !.poster_pixmap    = _load_pixmap_w(poster_image_path(files, poster.friendly_id)),
        !.presenter_pixmap = _load_pixmap_h(presenter_image_path(files, poster.friendly_id)),
        !.qrcode_pixmap    = _load_pixmap_h(qrcode_image_path(files, poster.friendly_id))]

\* Poster.unload_pixmaps.
unload_pixmaps_and_position(poster) ==
    [poster EXCEPT !.poster_pixmap = NoPixmap,
                   !.presenter_pixmap = NoPixmap,
                   !.qrcode_pixmap = NoPixmap,
                   !.session_index = None,
                   !.program_index = None]

unload_pixmaps(poster) ==
    [poster EXCEPT !.poster_pixmap = NoPixmap,
                   !.presenter_pixmap = NoPixmap,
                   !.qrcode_pixmap = NoPixmap]

\* ------------------------------------------------------------------------
\* program.py: PosterRoster.
\* ------------------------------------------------------------------------
\* The session field of a roster that found no poster (self.session = None).
NoSession == [row |-> 0, id_ |-> 0, start |-> None, end |-> None]

\* The loop over the rows of one session sheet, from row j on: a row whose
\* Poster cannot be built raises ValueError, which the except clause around
\* the whole loop catches, so the rows after it are never read.
RECURSIVE roster_rows(_, _, _)
roster_rows(rows, j, screen_id) ==
    IF j > Len(rows) THEN <<>>
    ELSE IF from_df_row_raises(rows[j]) THEN <<>>
    ELSE (IF rows[j].screen_id = screen_id THEN <<Poster(rows[j])>> ELSE <<>>)
            \o roster_rows(rows, j + 1, screen_id)

\* The loop over the rows of the program sheet, from row i on; acc is the
\* roster built so far.  A sheet that does not exist raises ValueError in
\* read_excel, caught by the same except clause.
RECURSIVE roster_loop_until_missing(_, _, _, _, _, _, _)
roster_loop_until_missing(df, sh, i, screen_id, display_date, wallclock, acc) ==
    IF i > Len(df) THEN acc
    ELSE LET session == PosterSession(i, df[i])
             sheet   == sh[session.id_]
             found   == roster_rows(sheet.rows, 1, screen_id)
         IN  IF ~ongoing(session, display_date, wallclock)
             THEN roster_loop_until_missing(df, sh, i + 1, screen_id, display_date,
                                            wallclock, acc)
             ELSE IF ~sheet.exists THEN acc
             ELSE roster_loop_until_missing(df, sh, i + 1, screen_id, display_date, wallclock,
                    [acc EXCEPT !.posters = @ \o found,
                                !.session = IF found # <<>> THEN session ELSE @])

\* The loop with the session assigned at the end of the body, for every
\* ongoing session, where the two lines commented out in the constructor
\* had it.
RECURSIVE roster_loop_session_of_body(_, _, _, _, _, _, _)
roster_loop_session_of_body(df, sh, i, screen_id, display_date, wallclock, acc) ==
    IF i > Len(df) THEN acc
    ELSE LET session == PosterSession(i, df[i])
             sheet   == sh[session.id_]
             found   == IF sheet.exists
                        THEN roster_rows(sheet.rows, 1, screen_id)
                        ELSE <<>>
         IN  IF ~ongoing(session, display_date, wallclock)
             THEN roster_loop_session_of_body(df, sh, i + 1, screen_id, display_date,
                                              wallclock, acc)
             ELSE roster_loop_session_of_body(df, sh, i + 1, screen_id, display_date,
                    wallclock, [acc EXCEPT !.posters = @ \o found, !.session = session])

RECURSIVE roster_loop(_, _, _, _, _, _, _)
roster_loop(df, sh, i, screen_id, display_date, wallclock, acc) ==
    IF i > Len(df) THEN acc
    ELSE LET session == PosterSession(i, df[i])
             sheet   == sh[session.id_]
             found   == IF sheet.exists
                        THEN roster_rows(sheet.rows, 1, screen_id)
                        ELSE <<>>
         IN  IF ~ongoing(session, display_date, wallclock)
             THEN roster_loop(df, sh, i + 1, screen_id, display_date, wallclock, acc)
             ELSE roster_loop(df, sh, i + 1, screen_id, display_date, wallclock,
                    [acc EXCEPT !.posters = @ \o found,
                                !.session = IF found # <<>> THEN session ELSE @])

\* PosterRoster(config_file_path, root_folder_path, screen_id, display_date).
PosterRoster(df, sh, screen_id, display_date, wallclock) ==
    roster_loop(df, sh, 1, screen_id, display_date, wallclock,
        [screen_id |-> screen_id, session |-> NoSession, posters |-> <<>>])

\* PosterRoster.load_pixmaps.
roster_load_pixmaps(files, roster) ==
    [roster EXCEPT !.posters = [j \in 1 .. Len(roster.posters) |->
                                    load_poster_pixmaps(files, roster.posters[j])]]

\* ------------------------------------------------------------------------
\* program.py: PosterProgram.
\* ------------------------------------------------------------------------
\* session_data_frame: None (here: no rows and a flag) when read_excel raises,
\* which it does for a missing sheet and, given the int dtype asked for the
\* Screen ID column, for a sheet with a blank Screen ID.
session_data_frame_is_none(sh, session_id) ==
    \/ ~sh[session_id].exists
    \/ \E j \in 1 .. Len(sh[session_id].rows) : sh[session_id].rows[j].screen_id = NaN

\* list.sort(key=friendly_id): a stable sort, as an insertion sort.
RECURSIVE insert_sorted(_, _)
insert_sorted(poster_list, poster) ==
    IF poster_list = <<>> THEN <<poster>>
    ELSE IF poster_list[Len(poster_list)].friendly_id <= poster.friendly_id
         THEN Append(poster_list, poster)
         ELSE Append(insert_sorted(SubSeq(poster_list, 1, Len(poster_list) - 1), poster),
                     poster_list[Len(poster_list)])

RECURSIVE sort_by_friendly_id(_)
sort_by_friendly_id(poster_list) ==
    IF poster_list = <<>> THEN <<>>
    ELSE insert_sorted(sort_by_friendly_id(SubSeq(poster_list, 1, Len(poster_list) - 1)),
                       poster_list[Len(poster_list)])

\* PosterCollectionBase.session_poster_list (sort=True).
session_poster_list(sh, session_id) ==
    IF session_data_frame_is_none(sh, session_id) THEN <<>>
    ELSE sort_by_friendly_id([j \in 1 .. Len(sh[session_id].rows) |->
                                Poster(sh[session_id].rows[j])])

\* PosterCollectionBase.poster_dict: one list per session, in session order.
poster_dict(df, sh) ==
    [i \in 1 .. Len(df) |-> session_poster_list(sh, session_list(df)[i].id_)]

\* The number of posters of the sessions before session i.
RECURSIVE posters_before(_, _)
posters_before(lists, i) ==
    IF i <= 1 THEN 0 ELSE posters_before(lists, i - 1) + Len(lists[i - 1])

\* The concatenation of the lists, in session order.
RECURSIVE flatten(_, _)
flatten(lists, i) ==
    IF i > Len(lists) THEN <<>> ELSE lists[i] \o flatten(lists, i + 1)

\* PosterProgram.__init__: the dict, with the position fields of every poster
\* set, and the flattened list.  A session is named by its row number.
PosterProgram(df, sh) ==
    LET raw   == poster_dict(df, sh)
        lists == [i \in 1 .. Len(df) |->
                    [j \in 1 .. Len(raw[i]) |->
                        [raw[i][j] EXCEPT !.session = i,
                                          !.program_index = posters_before(raw, i) + j - 1,
                                          !.session_index = j - 1]]]
    IN  [sessions |-> session_list(df), lists |-> lists, flattened |-> flatten(lists, 1)]

\* What a call gives back: the exception it raised ("" for none) and its value.
Returned(value) == [raised |-> "", value |-> value]
Raised(exception_name) == [raised |-> exception_name, value |-> Poster([friendly_id |-> 0, screen_id |-> 0])]

\* PosterProgram.select_by_program_index; Python lists are indexed from 0.
select_by_program_index(prog, index) ==
    IF Len(prog.flattened) = 0 THEN Raised("ZeroDivisionError")
    ELSE Returned(prog.flattened[PyMod(index, Len(prog.flattened)) + 1])

\* PosterProgram.select_by_session_index.
select_by_session_index_flat(prog, session, index) ==
    LET posters == prog.lists[session]
    IN  IF Len(posters) = 0 THEN Raised("ZeroDivisionError")
        ELSE Returned(posters[PyMod(PyMod(index, Len(prog.flattened)), Len(posters)) + 1])

select_by_session_index(prog, session, index) ==
    LET posters == prog.lists[session]
    IN  IF Len(posters) = 0 THEN Raised("ZeroDivisionError")
        ELSE Returned(posters[PyMod(index, Len(posters)) + 1])

\* ------------------------------------------------------------------------
\* The configuration files the specifications draw from.
\* ------------------------------------------------------------------------
\* The session sheets a configuration file may hold, by Session ID.
SessionIds == {1, 2}

\* A sheet that is not in the file.
MissingSheet == [exists |-> FALSE, rows |-> <<>>]

\* The sheet of session i whose Screen ID column is screen_ids; the Friendly
\* IDs are distinct over the program and run up or down the sheet.
MakeSheet(i, screen_ids, descending) ==
    [exists |-> TRUE,
     rows   |-> [j \in 1 .. Len(screen_ids) |->
                   [friendly_id |-> (i - 1) * (MaxRows + 1) +
                                    (IF descending THEN Len(screen_ids) + 1 - j ELSE j),
                    screen_id   |-> screen_ids[j]]]]

\* The sheets of session i with at most MaxRows rows and Screen IDs in cells.
SheetsOf(i, cells) ==
    {MissingSheet} \cup
    {MakeSheet(i, c, d) : c \in UNION {[1 .. n -> cells] : n \in 0 .. MaxRows},
                          d \in BOOLEAN}

\* The program sheets with n rows whose (Start Date, End Date) are in windows.
ProgramSheets(n, windows) ==
    {[i \in 1 .. n |-> [id_ |-> i, start |-> w[i][1], end |-> w[i][2]]] :
        w \in [1 .. n -> windows]}

\* The session sheets of a file with n sessions.
SessionSheets(n, cells) ==
    {sh \in [SessionIds -> UNION {SheetsOf(i, cells) : i \in SessionIds}] :
        \A i \in SessionIds : IF i <= n THEN sh[i] \in SheetsOf(i, cells)
                                        ELSE sh[i] = MissingSheet}

Text(t) == [ok |-> TRUE, t |-> t]
BadText == [ok |-> FALSE, t |-> 0]

\* ------------------------------------------------------------------------
\* State.
\* ------------------------------------------------------------------------
VARIABLES
    program_df,     \* the Program sheet of the configuration file
    sheets,         \* the session sheets of the configuration file
    assets,         \* the image files under the root folder
    now,            \* datetime.datetime.now()
    magic_file,     \* whether the file at MAGIC_FILE_PATH exists
    call,           \* the last call made to the data model, with its result
    program,        \* a PosterProgram instance
    slideshow,      \* a SlideShow window
    browser,        \* a ProgramBrowser window
    directory,      \* a SessionDirectory window
    marker_reloads  \* the reloads the present magic file has caused since created

files == <<program_df, sheets, assets>>
windows == <<magic_file, marker_reloads, slideshow, browser, directory>>
vars == <<program_df, sheets, assets, now, magic_file, call, program, slideshow,
          browser, directory, marker_reloads>>

NoCall == [op |-> "", args |-> <<>>, result |-> FALSE]
NoProgram == [sessions |-> <<>>, lists |-> <<>>, flattened |-> <<>>]

\* The image files of the posters with an odd Friendly ID among 1 .. 2 * MaxRows + 1.
OddAssets ==
    {[folder |-> f, file |-> _image_file_name(2 * k + 1)] :
        f \in {POSTER_FOLDER_NAME, PRESENTER_FOLDER_NAME, QRCODE_FOLDER_NAME},
        k \in 0 .. MaxRows}

\* The image files of every poster a session sheet can hold.
AllAssets ==
    {[folder |-> f, file |-> _image_file_name(k)] :
        f \in {POSTER_FOLDER_NAME, PRESENTER_FOLDER_NAME, QRCODE_FOLDER_NAME},
        k \in 1 .. Cardinality(SessionIds) * (MaxRows + 1)}

\* No display window is running.
NoApplication ==
    /\ assets = OddAssets
    /\ magic_file = FALSE
    /\ marker_reloads = 0
    /\ slideshow = [aborted |-> TRUE]
    /\ browser = [aborted |-> TRUE]
    /\ directory = [aborted |-> TRUE]

\* ------------------------------------------------------------------------
\* PosterSession.ongoing on every session and instant.
\* ------------------------------------------------------------------------
InitSession ==
    /\ program_df \in ProgramSheets(1, DateTexts \X DateTexts)
    /\ sheets = [i \in SessionIds |-> MissingSheet]
    /\ now \in 0 .. Horizon
    /\ call = NoCall
    /\ program = NoProgram
    /\ NoApplication

CallOngoing ==
    \E current_datetime \in Times \cup {None} :
        /\ call' = [op     |-> "ongoing",
                    args   |-> <<session_list(program_df)[1], current_datetime>>,
                    result |-> ongoing(session_list(program_df)[1], current_datetime, now)]
        /\ UNCHANGED <<files, now, program, windows>>

NextSession == CallOngoing

SpecSession == InitSession /\ [][NextSession]_vars

\* C1: for a session whose start and end both parse, ongoing(t) is true
\* exactly when start <= t < end, where t is the instant given or, when none
\* is given, the wall clock: t = start is ongoing, t = end is not.
C1_OngoingHalfOpen ==
    call.op = "ongoing" =>
        LET session == call.args[1]
            t       == IF call.args[2] = None THEN now ELSE call.args[2]
        IN  (session.start \in Times /\ session.end \in Times) =>
                /\ call.result = (session.start <= t /\ t < session.end)
                /\ (t = session.start /\ session.start < session.end => call.result = TRUE)
                /\ (t = session.end => call.result = FALSE)

\* A call at the end instant of a well-formed, non-empty session window.
C1_Witness ==
    /\ call.op = "ongoing"
    /\ call.args[1].start \in Times
    /\ call.args[1].end \in Times
    /\ call.args[1].start < call.args[1].end
    /\ call.args[2] = call.args[1].end
    /\ call.result = FALSE

\* ------------------------------------------------------------------------
\* PosterRoster on every configuration file, screen and reference time.
\* ------------------------------------------------------------------------
\* The session windows of these files: an early and a late session that meet
\* at instant 1, and a session whose Start Date does not parse.
RosterWindows ==
    {<<Text(0), Text(1)>>, <<Text(1), Text(MaxTime)>>, <<BadText, Text(MaxTime)>>}

InitRoster ==
    /\ \E n \in 0 .. Cardinality(SessionIds) :
        /\ program_df \in ProgramSheets(n, RosterWindows)
        \* a Screen ID cell is a screen, or blank
        /\ sheets \in SessionSheets(n, Screens \cup {NaN})
    /\ now = 0
    /\ call = NoCall
    /\ program = NoProgram
    /\ NoApplication

NewPosterRoster ==
    \E screen_id \in Screens, display_date \in Times :
        /\ call' = [op     |-> "PosterRoster",
                    args   |-> <<screen_id, display_date>>,
                    result |-> PosterRoster(program_df, sheets, screen_id, display_date, now)]
        /\ UNCHANGED <<files, now, program, windows>>

NextRoster == NewPosterRoster

SpecRoster == InitRoster /\ [][NextRoster]_vars

\* The rows of a sheet whose Screen ID is screen_id, in row order, as posters.
RECURSIVE matching_rows(_, _, _)
matching_rows(rows, j, screen_id) ==
    IF j > Len(rows) THEN <<>>
    ELSE (IF rows[j].screen_id = screen_id THEN <<Poster(rows[j])>> ELSE <<>>)
            \o matching_rows(rows, j + 1, screen_id)

\* The posters of screen_id in the sessions ongoing at t: program-sheet order,
\* then row order.
RECURSIVE matching_posters(_, _, _)
matching_posters(i, screen_id, t) ==
    IF i > Len(program_df) THEN <<>>
    ELSE LET session == PosterSession(i, program_df[i])
             during  == /\ session.start # None
                        /\ session.end # None
                        /\ session.start <= t
                        /\ t < session.end
         IN  (IF during THEN matching_rows(sheets[session.id_].rows, 1, screen_id) ELSE <<>>)
                \o matching_posters(i + 1, screen_id, t)

\* C2: the roster built for screen X at time t is the sequence of all posters
\* whose Screen ID is X in the sessions ongoing at t, in program-sheet order
\* and then row order, none missing and no other; it is empty when no session
\* is ongoing at t.
C2_RosterExact ==
    call.op = "PosterRoster" =>
        call.result.posters = matching_posters(1, call.args[1], call.args[2])

\* ------------------------------------------------------------------------
\* PosterProgram on every configuration file, and its select_by_* methods.
\* ------------------------------------------------------------------------
\* The Screen ID cells of these files are 1 or blank: the program does not
\* look at the screen, only at whether the cell is blank.

\* The indices handed to the select_by_* methods.
Indices == (0 - MaxIndex) .. MaxIndex

InitProgram ==
    /\ \E n \in 0 .. Cardinality(SessionIds) :
        /\ program_df \in ProgramSheets(n, {<<Text(0), Text(1)>>})
        /\ sheets \in SessionSheets(n, {1, NaN})
    /\ now = 0
    /\ call = NoCall
    /\ program = PosterProgram(program_df, sheets)
    /\ NoApplication

SelectByProgramIndex ==
    \E index \in Indices :
        /\ call' = [op     |-> "select_by_program_index",
                    args   |-> <<index>>,
                    result |-> select_by_program_index(program, index)]
        /\ UNCHANGED <<files, now, program, windows>>

SelectBySessionIndex ==
    \E session \in 1 .. Len(program.sessions), index \in Indices :
        /\ call' = [op     |-> "select_by_session_index",
                    args   |-> <<session, index>>,
                    result |-> select_by_session_index(program, session, index)]
        /\ UNCHANGED <<files, now, program, windows>>

NextProgram == SelectByProgramIndex \/ SelectBySessionIndex

SpecProgram == InitProgram /\ [][NextProgram]_vars

\* The number of posters of the first i sessions of a program.
RECURSIVE NumPosters(_, _)
NumPosters(prog, i) == IF i = 0 THEN 0 ELSE NumPosters(prog, i - 1) + Len(prog.lists[i])

\* k mod n for n > 0: the r in 0 .. n-1 that differs from k by a multiple of n.
Modulo(k, n) == CHOOSE r \in 0 .. n - 1 : \E q \in (0 - MaxIndex - 1) .. MaxIndex : k = q * n + r

\* A sheet that is in the file and has no blank Screen ID.
WellFormedSheet(i) ==
    /\ sheets[i].exists
    /\ \A j \in 1 .. Len(sheets[i].rows) : sheets[i].rows[j].screen_id # NaN

\* C3: the flattened index of a program holds the posters of its sessions in
\* session order, so its length is the sum of the P_i (P_i being the number of
\* rows of a readable sheet), and select_by_program_index(k) returns the
\* poster at flattened position k mod that length for every integer k,
\* negative or beyond the length, when the program has a poster.
C3_ProgramIndexWraps ==
    LET total == NumPosters(program, Len(program.sessions))
    IN  /\ Len(program.flattened) = total
        /\ \A i \in 1 .. Len(program.sessions) :
            /\ WellFormedSheet(i) => Len(program.lists[i]) = Len(sheets[i].rows)
            /\ \A j \in 1 .. Len(program.lists[i]) :
                program.flattened[NumPosters(program, i - 1) + j] = program.lists[i][j]
        /\ (call.op = "select_by_program_index" /\ total > 0) =>
            /\ call.result.raised = ""
            /\ call.result.value = program.flattened[Modulo(call.args[1], total) + 1]

\* A call with a negative index on a program of two non-empty sessions.
C3_Witness ==
    /\ call.op = "select_by_program_index"
    /\ call.args[1] < 0
    /\ Len(program.sessions) = 2
    /\ Len(program.lists[1]) > 0
    /\ Len(program.lists[2]) > 1
    /\ call.result.value = program.lists[2][1]

\* C4: select_by_session_index(S, k) returns the poster at position
\* k mod P_S of the poster list of S, for every session S that has posters
\* and every integer k, negative or beyond P_S.
C4_SessionIndexWraps ==
    call.op = "select_by_session_index" =>
        LET posters == program.lists[call.args[1]]
        IN  Len(posters) > 0 =>
                /\ call.result.raised = ""
                /\ call.result.value = posters[Modulo(call.args[2], Len(posters)) + 1]

\* A call with a negative index that wraps to the last poster of the second
\* session, while the first session has posters too.
C4_Witness ==
    /\ call.op = "select_by_session_index"
    /\ call.args[1] = 2
    /\ call.args[2] = 0 - 1
    /\ Len(program.lists[1]) > 0
    /\ Len(program.lists[2]) > 1
    /\ call.result.value = program.lists[2][Len(program.lists[2])]

\* ------------------------------------------------------------------------
\* __init__.py: the magic file.
\* ------------------------------------------------------------------------
\* read_magic_file: what it returns and whether the file exists afterwards.
read_magic_file_no_remove(exists) == [value |-> IF exists THEN 1 ELSE 0, exists |-> exists]

read_magic_file(exists) == [value |-> IF exists THEN 1 ELSE 0, exists |-> FALSE]

\* ------------------------------------------------------------------------
\* gui.py: QTimer and the callbacks of the event loop.
\* ------------------------------------------------------------------------
\* A timer that is not active; an active one holds the ticks left.
Inactive == -1

\* QTimer.setInterval(10000) of the reload timers, in ticks.
ReloadInterval == 2

\* One tick of a timer.
TimerTick(timer) == IF timer = Inactive THEN Inactive ELSE timer - 1

\* An exception that leaves a callback is printed by the event loop or, in
\* PyQt5 from 5.5 on, ends the process: abort says which.
Outcome(window, abort) ==
    IF window.raised # "" /\ abort THEN [window EXCEPT !.aborted = TRUE] ELSE window

\* A window at the start of the callback of an event (a key press with the
\* text of the key, or the timeout of a timer).
Enter(window, event, key) ==
    [window EXCEPT !.raised = "", !.reloaded = FALSE, !.event = event, !.key = key]

\* ------------------------------------------------------------------------
\* gui.py: SlideShow.
\* ------------------------------------------------------------------------
\* SlideShowKeyMap.
ADVANCE == 1
PAUSE == 2
BACKUP == 3
RELOAD == 5
VALID_KEYS == {"1", "2", "3", "5"}

\* The texts of the keys of the keyboard, and int(key).
KeyTexts == {"1", "2", "3", "4", "5"}
KeyInt(key) ==
    CASE key = "1" -> 1 [] key = "2" -> 2 [] key = "3" -> 3 [] key = "4" -> 4 [] key = "5" -> 5

\* read_screen_id(): the screen of this slideshow.
ScreenId == 1

\* SlideShow.running.
running(s) == s.status = "RUNNING"

\* SlideShow.start.
start(s) ==
    [s EXCEPT !.status = "RUNNING",
              !.advance_timer = AdvanceInterval,
              !.reload_timer = ReloadInterval]

\* SlideShow.stop.
stop(s) ==
    [s EXCEPT !.status = "STOPPED",
              !.advance_timer = Inactive,
              !.reload_timer = Inactive]

\* SlideShow.pause.
pause_keep_advance_timer(s) ==
    [s EXCEPT !.status = "PAUSED",
              !.resume_timer = PauseInterval]

pause(s) ==
    [s EXCEPT !.status = "PAUSED",
              !.advance_timer = Inactive,
              !.resume_timer = PauseInterval]

\* RosterTable.set_current_row: item() is None for a row the table does not
\* have, and the rows of the table are those of the roster.
set_current_row(s, row) ==
    IF s.highlighted_row # None /\ s.highlighted_row >= Len(s.poster_roster.posters)
    THEN [s EXCEPT !.raised = "AttributeError"]
    ELSE [s EXCEPT !.highlighted_row = row]

\* ScreenHeader.update: the portrait and the QR code of the poster, then the
\* row of the table.
header_update(s, current_poster_id) ==
    LET poster == s.poster_roster.posters[current_poster_id + 1]
    IN  set_current_row([s EXCEPT !.header_portrait = poster.presenter_pixmap,
                                  !.header_qrcode = poster.qrcode_pixmap],
                        current_poster_id)

\* SlideShow.display_poster.
display_poster_no_modulo(s, index) ==
    LET s1 == [s EXCEPT !.current_index = index]
    IN  IF index < 0 \/ index >= Len(s.poster_roster.posters)
        THEN [s1 EXCEPT !.raised = "IndexError"]
        ELSE LET s2 == header_update(s1, s1.current_index)
             IN  IF s2.raised # "" THEN s2
                 ELSE [s2 EXCEPT !.poster_label =
                            s2.poster_roster.posters[s2.current_index + 1].poster_pixmap]

display_poster(s, index) ==
    IF Len(s.poster_roster.posters) = 0
    THEN [s EXCEPT !.raised = "ZeroDivisionError"]
    ELSE LET s1 == [s EXCEPT !.current_index = PyMod(index, Len(s.poster_roster.posters))]
             s2 == header_update(s1, s1.current_index)
         IN  IF s2.raised # "" THEN s2
             ELSE [s2 EXCEPT !.poster_label =
                        s2.poster_roster.posters[s2.current_index + 1].poster_pixmap]

\* SlideShow.advance and SlideShow.backup.
advance(s) == display_poster(s, s.current_index + 1)
backup(s) == display_poster(s, s.current_index - 1)

\* SlideShow.resume.
resume_without_advance(s) ==
    IF running(s) THEN s
    ELSE start(s)

resume_when_running(s) == advance(start(s))

resume(s) ==
    IF running(s) THEN s
    ELSE advance(start(s))

\* ScreenHeader.clear: the labels and the items of the table; the number of
\* rows of the table and _highlighted_row stay.
header_clear(s) ==
    [s EXCEPT !.header_portrait = NoPixmap,
              !.header_qrcode = NoPixmap,
              !.header_table = 0]

\* SlideShow._load_roster.
_load_roster_without_stop(s, df, sh, fs, wallclock) ==
    LET s1     == [s EXCEPT !.reloaded = TRUE]
        roster == PosterRoster(df, sh, s.screen_id, s.display_datetime, wallclock)
        s2     == [s1 EXCEPT !.poster_roster = roster]
        s3     == [s1 EXCEPT !.poster_roster = roster_load_pixmaps(fs, roster),
                             !.header_subtitle = roster.session.row,
                             !.header_table = Len(roster.posters)]
        s4     == display_poster(s3, 0)
    IN  IF Len(roster.posters) = 0
        THEN [header_clear([s2 EXCEPT !.poster_label = load_default_pixmaps[1]])
                EXCEPT !.header_subtitle = 0,
                       !.header_qrcode = load_default_pixmaps[2]]
        ELSE IF s4.raised # "" THEN s4
        ELSE IF Len(roster.posters) > 1 THEN start([s4 EXCEPT !.current_index = 0])
        ELSE s4

_load_roster(s, df, sh, fs, wallclock) ==
    LET s1     == [stop(s) EXCEPT !.reloaded = TRUE]
        roster == PosterRoster(df, sh, s.screen_id, s.display_datetime, wallclock)
        s2     == [s1 EXCEPT !.poster_roster = roster]
        s3     == [s1 EXCEPT !.poster_roster = roster_load_pixmaps(fs, roster),
                             !.header_subtitle = roster.session.row,
                             !.header_table = Len(roster.posters)]
        s4     == display_poster(s3, 0)
    IN  IF Len(roster.posters) = 0
        THEN [header_clear([s2 EXCEPT !.poster_label = load_default_pixmaps[1]])
                EXCEPT !.header_subtitle = 0,
                       !.header_qrcode = load_default_pixmaps[2]]
        ELSE IF s4.raised # "" THEN s4
        ELSE IF Len(roster.posters) > 1 THEN start([s4 EXCEPT !.current_index = 0])
        ELSE s4

\* SlideShow._check_reload; magic is what read_magic_file() returned.
_check_reload(s, magic, df, sh, fs, wallclock) ==
    IF magic # 0 THEN _load_roster(s, df, sh, fs, wallclock)
    ELSE IF s.poster_roster.session = NoSession THEN s
    ELSE IF ~ongoing(s.poster_roster.session, None, wallclock)
         THEN _load_roster(s, df, sh, fs, wallclock)
         ELSE s

\* SlideShow.keyPressEvent; key is event.text().
keyPressEvent_one_poster(s, key, df, sh, fs, wallclock) ==
    IF Len(s.poster_roster.posters) < 1 THEN s
    ELSE IF key \notin VALID_KEYS THEN s
    ELSE IF KeyInt(key) = ADVANCE THEN advance(start(s))
    ELSE IF KeyInt(key) = BACKUP THEN backup(start(s))
    ELSE IF KeyInt(key) = PAUSE THEN pause(s)
    ELSE IF KeyInt(key) = RELOAD THEN _load_roster(s, df, sh, fs, wallclock)
    ELSE s

keyPressEvent_any_key(s, key, df, sh, fs, wallclock) ==
    IF Len(s.poster_roster.posters) <= 1 THEN s
    ELSE IF KeyInt(key) = ADVANCE THEN advance(start(s))
    ELSE IF KeyInt(key) = BACKUP THEN backup(start(s))
    ELSE IF KeyInt(key) = RELOAD THEN _load_roster(s, df, sh, fs, wallclock)
    ELSE pause(s)

keyPressEvent(s, key, df, sh, fs, wallclock) ==
    IF Len(s.poster_roster.posters) <= 1 THEN s
    ELSE IF key \notin VALID_KEYS THEN s
    ELSE IF KeyInt(key) = ADVANCE THEN advance(start(s))
    ELSE IF KeyInt(key) = BACKUP THEN backup(start(s))
    ELSE IF KeyInt(key) = PAUSE THEN pause(s)
    ELSE IF KeyInt(key) = RELOAD THEN _load_roster(s, df, sh, fs, wallclock)
    ELSE s

\* SlideShow.__init__: the window before the first _load_roster, then after.
NewSlideShow(display_datetime) ==
    [aborted          |-> FALSE,
     raised           |-> "",
     reloaded         |-> FALSE,
     event            |-> "",
     key              |-> "",
     screen_id        |-> ScreenId,
     display_datetime |-> display_datetime,
     status           |-> "STOPPED",
     current_index    |-> 0,
     poster_roster    |-> [screen_id |-> ScreenId, session |-> NoSession, posters |-> <<>>],
     advance_timer    |-> Inactive,
     resume_timer     |-> Inactive,
     reload_timer     |-> Inactive,
     highlighted_row  |-> None,
     header_subtitle  |-> 0,
     header_portrait  |-> NoPixmap,
     header_qrcode    |-> NoPixmap,
     header_table     |-> 0,
     poster_label     |-> NoPixmap]

SlideShow(display_datetime, df, sh, fs, wallclock) ==
    _load_roster(NewSlideShow(display_datetime), df, sh, fs, wallclock)

\* ------------------------------------------------------------------------
\* The slideshow of screen ScreenId, its keyboard, its timers and the clock.
\* ------------------------------------------------------------------------
\* The sheet of session i with k posters, all of this screen.
UniformSheet(i, k) == MakeSheet(i, [j \in 1 .. k |-> ScreenId], FALSE)

\* The program sheets: two sessions one after the other, or a long session
\* and a short one that start together.
SlideShowPrograms ==
    {<<[id_ |-> 1, start |-> Text(0), end |-> Text(1)],
       [id_ |-> 2, start |-> Text(1), end |-> Text(MaxTime)]>>,
     <<[id_ |-> 1, start |-> Text(0), end |-> Text(MaxTime)],
       [id_ |-> 2, start |-> Text(0), end |-> Text(1)]>>}

InitSlideShow ==
    /\ program_df \in SlideShowPrograms
    /\ sheets \in {[i \in SessionIds |-> UniformSheet(i, k[i])] :
                        k \in [SessionIds -> 0 .. MaxRows]}
    /\ assets = OddAssets
    /\ now = 0
    /\ magic_file = FALSE
    /\ marker_reloads = 0
    /\ call = NoCall
    /\ program = NoProgram
    /\ \E display_datetime \in {None, 0} :
        slideshow = SlideShow(display_datetime, program_df, sheets, assets, now)
    /\ browser = [aborted |-> TRUE]
    /\ directory = [aborted |-> TRUE]

\* The user presses a key.
SlideShowKeyPress ==
    /\ ~slideshow.aborted
    /\ \E key \in KeyTexts, abort \in BOOLEAN :
        slideshow' = Outcome(keyPressEvent(Enter(slideshow, "key", key), key,
                                           program_df, sheets, assets, now), abort)
    /\ UNCHANGED <<files, now, call, program, magic_file, marker_reloads, browser, directory>>

\* advance_timer.timeout: the timer is periodic.
AdvanceTimeout ==
    /\ ~slideshow.aborted
    /\ slideshow.advance_timer = 0
    /\ \E abort \in BOOLEAN :
        slideshow' = Outcome(advance([Enter(slideshow, "advance_timer", "")
                                        EXCEPT !.advance_timer = AdvanceInterval]), abort)
    /\ UNCHANGED <<files, now, call, program, magic_file, marker_reloads, browser, directory>>

\* resume_timer.timeout: the timer is single-shot.
ResumeTimeout ==
    /\ ~slideshow.aborted
    /\ slideshow.resume_timer = 0
    /\ \E abort \in BOOLEAN :
        slideshow' = Outcome(resume([Enter(slideshow, "resume_timer", "")
                                        EXCEPT !.resume_timer = Inactive]), abort)
    /\ UNCHANGED <<files, now, call, program, magic_file, marker_reloads, browser, directory>>

\* reload_timer.timeout: the timer is periodic.
ReloadTimeout ==
    /\ ~slideshow.aborted
    /\ slideshow.reload_timer = 0
    /\ LET magic == read_magic_file(magic_file)
           after == _check_reload([Enter(slideshow, "reload_timer", "")
                                        EXCEPT !.reload_timer = ReloadInterval],
                                  magic.value, program_df, sheets, assets, now)
       IN  /\ \E abort \in BOOLEAN : slideshow' = Outcome(after, abort)
           /\ magic_file' = magic.exists
           /\ marker_reloads' = IF magic_file /\ after.reloaded
                                THEN marker_reloads + 1 ELSE marker_reloads
    /\ UNCHANGED <<files, now, call, program, browser, directory>>

\* A tick of the timers: none is due.
SlideShowTick ==
    /\ ~slideshow.aborted
    /\ slideshow.advance_timer # 0
    /\ slideshow.resume_timer # 0
    /\ slideshow.reload_timer # 0
    /\ \/ slideshow.advance_timer # Inactive
       \/ slideshow.resume_timer # Inactive
       \/ slideshow.reload_timer # Inactive
    /\ slideshow' = [slideshow EXCEPT !.event = "tick",
                                      !.key = "",
                                      !.advance_timer = TimerTick(@),
                                      !.resume_timer = TimerTick(@),
                                      !.reload_timer = TimerTick(@)]
    /\ UNCHANGED <<files, now, call, program, magic_file, marker_reloads, browser, directory>>

\* The wall clock reaches the next instant the sheets can tell apart.
ClockAdvance ==
    /\ now < Horizon
    /\ now' = now + 1
    /\ UNCHANGED <<files, call, program, windows>>

\* Somebody creates the magic file.
CreateMagicFile ==
    /\ ~magic_file
    /\ magic_file' = TRUE
    /\ marker_reloads' = 0
    /\ UNCHANGED <<files, now, call, program, slideshow, browser, directory>>

NextSlideShow ==
    \/ SlideShowKeyPress
    \/ AdvanceTimeout
    \/ ResumeTimeout
    \/ ReloadTimeout
    \/ SlideShowTick
    \/ ClockAdvance
    \/ CreateMagicFile

SpecSlideShow == InitSlideShow /\ [][NextSlideShow]_vars

\* A step of the slideshow that is the callback of the given event: every
\* callback and every tick records its event, and no other action touches the
\* window.
SlideShowStep(event) == slideshow' # slideshow /\ slideshow'.event = event

\* What the slideshow claims call the state of the slideshow.
SlideShowFrame(s) ==
    <<s.status, s.current_index, s.poster_roster,
      s.advance_timer, s.resume_timer, s.reload_timer>>

C7_ReloadCheckScheduled ==
    (/\ ~slideshow.aborted
     /\ \/ magic_file
        \/ /\ slideshow.poster_roster.session # NoSession
           /\ ~ongoing(slideshow.poster_roster.session, None, now))
        => slideshow.reload_timer # Inactive

\* C9: a key press on a slideshow whose roster has at most one poster leaves
\* the status, the index, the roster and the three timers as they were.
C9_KeysOffBelowTwoPosters ==
    [][(SlideShowStep("key") /\ Len(slideshow.poster_roster.posters) <= 1)
            => SlideShowFrame(slideshow') = SlideShowFrame(slideshow)]_vars

\* A RELOAD key has been pressed on a roster of one poster, with the magic
\* file present, and nothing was loaded.
C9_Witness ==
    /\ slideshow.event = "key"
    /\ slideshow.key = "5"
    /\ ~slideshow.reloaded
    /\ Len(slideshow.poster_roster.posters) = 1
    /\ slideshow.status = "STOPPED"
    /\ magic_file

\* C10: a press of a key that is none of the four mapped keys (1, 2, 3 and 5)
\* leaves the status, the index, the roster and the three timers as they
\* were, in every state.
C10_UnmappedKeyIgnored ==
    [][(SlideShowStep("key") /\ slideshow'.key \notin {"1", "2", "3", "5"})
            => SlideShowFrame(slideshow') = SlideShowFrame(slideshow)]_vars

\* The unmapped key 4 has been pressed on a running slideshow of two or more
\* posters.
C10_Witness ==
    /\ slideshow.event = "key"
    /\ slideshow.key = "4"
    /\ slideshow.status = "RUNNING"
    /\ Len(slideshow.poster_roster.posters) >= 2

\* ------------------------------------------------------------------------
\* program.py: the Poster objects of a PosterProgram, and random_poster.
\* ------------------------------------------------------------------------
\* The dict and the flattened list of a PosterProgram hold the same Poster
\* objects: __init__ appends the poster at place j of the list of session i
\* to the flattened list, whose places therefore name the objects.
address(prog, session, j) == posters_before(prog.lists, session) + j

\* An attribute of the object at place a is assigned: both views see it.
assign(prog, a, poster) ==
    [prog EXCEPT !.flattened[a] = poster,
                 !.lists = [i \in 1 .. Len(prog.lists) |->
                                [j \in 1 .. Len(prog.lists[i]) |->
                                    IF address(prog, i, j) = a THEN poster
                                                               ELSE prog.lists[i][j]]]]

\* PosterProgram.random_poster: random.choice of a session, then of one of its
\* posters; random.choice raises IndexError on an empty sequence.
random_poster(prog) ==
    {[raised |-> "", address |-> address(prog, i, j)] :
        <<i, j>> \in {ij \in (1 .. Len(prog.lists)) \X (1 .. MaxRows + 1) :
                        ij[2] <= Len(prog.lists[ij[1]])}}
    \cup (IF Len(prog.lists) = 0 \/ \E i \in 1 .. Len(prog.lists) : Len(prog.lists[i]) = 0
          THEN {[raised |-> "IndexError", address |-> None]}
          ELSE {})

\* ------------------------------------------------------------------------
\* gui.py: ProgramTreeWidget and ProgramBrowser.
\* ------------------------------------------------------------------------
\* BrowserKeyMap, by the name of the Qt key, and a key that is not in it.
EXPAND == "Right"
COLLAPSE == "Left"
BrowserKeyMap_ADVANCE == "Down"
BrowserKeyMap_BACKUP == "Up"
BrowserKeyMap_PAUSE == "Return"
ProgramBrowser_VALID_KEYS ==
    {EXPAND, COLLAPSE, BrowserKeyMap_ADVANCE, BrowserKeyMap_BACKUP, BrowserKeyMap_PAUSE}

\* An item of the tree: the top-level item of a session (child 0) or its
\* child number `child`; NoItem is currentItem() returning None.
NoItem == [session |-> 0, child |-> 0]
TopLevelItem(session) == [session |-> session, child |-> 0]
ChildItem(session, child) == [session |-> session, child |-> child]

\* The places in prog.lists[i] of the posters that have an image.
RECURSIVE with_image(_, _, _, _)
with_image(fs, prog, i, j) ==
    IF j > Len(prog.lists[i]) THEN <<>>
    ELSE (IF missing_poster_image(fs, prog.lists[i][j].friendly_id)
          THEN <<>> ELSE <<address(prog, i, j)>>)
         \o with_image(fs, prog, i, j + 1)

\* ProgramBrowser._load_program: one top-level item per session, with one
\* child (here: the place of its poster) per poster that has an image.
ProgramBrowser_load_program(fs, prog) ==
    [i \in 1 .. Len(prog.lists) |-> with_image(fs, prog, i, 1)]

\* The items one can see: the top-level items and the children of the
\* expanded one.
VisibleItems(b) ==
    {TopLevelItem(i) : i \in 1 .. Len(b.items)} \cup
    {ChildItem(b.expanded, c) : c \in 1 .. (IF b.expanded = 0 THEN 0 ELSE Len(b.items[b.expanded]))}

\* QTreeWidget.keyPressEvent, the base class, with collapse_unused on
\* itemExpanded: Down and Up move the cursor to an item one can see, Right
\* expands the current top-level item (collapsing the other ones) or moves to
\* a child of it, Left collapses it or moves from a child to its parent; the
\* other keys leave the tree alone.  What is left is the cursor and the
\* expanded session.
TreeMoves(b, key) ==
    LET here == <<b.current_item, b.expanded>>
        cur  == b.current_item
    IN  IF cur = NoItem THEN {here}
        ELSE IF key \in {BrowserKeyMap_ADVANCE, BrowserKeyMap_BACKUP}
            THEN {<<item, b.expanded>> : item \in VisibleItems(b)}
        ELSE IF key = EXPAND /\ cur.child = 0
            THEN {here, <<cur, cur.session>>} \cup
                 (IF b.expanded = cur.session /\ Len(b.items[cur.session]) > 0
                  THEN {<<ChildItem(cur.session, 1), b.expanded>>} ELSE {})
        ELSE IF key = COLLAPSE /\ cur.child = 0
            THEN {here, <<cur, IF b.expanded = cur.session THEN 0 ELSE b.expanded>>}
        ELSE IF key = COLLAPSE
            THEN {here, <<TopLevelItem(cur.session), b.expanded>>}
        ELSE {here}

\* ProgramBrowser.unload_current_pixmaps.
unload_current_pixmaps(b) ==
    IF b.current_poster # None
    THEN [b EXCEPT !.program = assign(@, b.current_poster,
                                      unload_pixmaps(@.flattened[b.current_poster])),
                   !.current_poster = None]
    ELSE b

\* ProgramBrowser._display_poster; the poster is given by its place.
_display_poster_load_first(b, fs, a) ==
    LET b1 == [b EXCEPT !.tree_visible = FALSE,
                        !.key_press_events_enabled = FALSE,
                        !.program = assign(@, a, load_poster_pixmaps(fs, @.flattened[a]))]
        b2 == unload_current_pixmaps(b1)
    IN  [b2 EXCEPT !.header_poster = a,
                   !.poster_label = b1.program.flattened[a].poster_pixmap,
                   !.poster_label_visible = TRUE,
                   !.current_poster = a,
                   !.header_timer = TRUE,
                   !.toggle_timer = PauseInterval,
                   !.focus = "window"]

_display_poster(b, fs, a) ==
    LET b1 == unload_current_pixmaps([b EXCEPT !.tree_visible = FALSE,
                                               !.key_press_events_enabled = FALSE])
        b2 == [b1 EXCEPT !.program = assign(@, a, load_poster_pixmaps(fs, @.flattened[a]))]
    IN  [b2 EXCEPT !.header_poster = a,
                   !.poster_label = b2.program.flattened[a].poster_pixmap,
                   !.poster_label_visible = TRUE,
                   !.current_poster = a,
                   !.header_timer = TRUE,
                   !.toggle_timer = PauseInterval,
                   !.focus = "window"]

\* ProgramBrowser.display_current_poster: the current item is a child.
display_current_poster_first_child(b, fs) ==
    _display_poster([b EXCEPT !.status = "POSTER_VIEW"], fs,
                    b.items[b.current_item.session][1])

display_current_poster(b, fs) ==
    _display_poster([b EXCEPT !.status = "POSTER_VIEW"], fs,
                    b.items[b.current_item.session][b.current_item.child])

\* ProgramBrowser.display_random_poster; pick is what random_poster() does.
display_random_poster(b, fs, pick) ==
    IF pick.raised # "" THEN [b EXCEPT !.raised = pick.raised]
    ELSE _display_poster(b, fs, pick.address)

\* The place of what select_by_session_index(session, index) returns.
selected_address(prog, session, index) ==
    address(prog, session, PyMod(index, Len(prog.lists[session])) + 1)

\* ProgramBrowser.display_next_poster and display_previous_poster.
display_next_poster_in_program(b, fs) ==
    LET poster == b.program.flattened[b.current_poster]
    IN  _display_poster(b, fs,
            PyMod(poster.program_index + 1, Len(b.program.flattened)) + 1)

display_next_poster(b, fs) ==
    LET poster == b.program.flattened[b.current_poster]
    IN  _display_poster(b, fs,
            selected_address(b.program, poster.session, poster.session_index + 1))

display_previous_poster(b, fs) ==
    LET poster == b.program.flattened[b.current_poster]
    IN  _display_poster(b, fs,
            selected_address(b.program, poster.session, poster.session_index - 1))

\* The child of the parent of the current item that holds the poster at
\* place a, or the current item when there is none.
item_of_poster(b, a) ==
    LET s == b.current_item.session
        found == {c \in 1 .. Len(b.items[s]) : b.items[s][c] = a}
    IN  IF found = {} THEN b.current_item ELSE ChildItem(s, CHOOSE c \in found : TRUE)

\* ProgramBrowser.display_tree_view.  The tree widget that gets the focus
\* with no current item makes its first item current (focusInEvent of the
\* base class); a top-level item has no poster attribute (AttributeError,
\* caught).
display_tree_view(b) ==
    LET b1 == [b EXCEPT !.status = "TREE_VIEW",
                        !.carousel_timer = Inactive,
                        !.toggle_timer = PauseInterval,
                        !.header_poster = None,
                        !.poster_label = NoPixmap,
                        !.poster_label_visible = FALSE,
                        !.tree_visible = TRUE,
                        !.key_press_events_enabled = TRUE,
                        !.focus = "tree",
                        !.current_item = IF @ = NoItem /\ Len(b.items) > 0
                                         THEN TopLevelItem(1) ELSE @]
    IN  IF b1.current_item.child = 0 THEN b1
        ELSE IF /\ b1.current_poster # None
                /\ b1.items[b1.current_item.session][b1.current_item.child] # b1.current_poster
             THEN [b1 EXCEPT !.current_item = item_of_poster(b1, b1.current_poster)]
             ELSE b1

\* ProgramBrowser.start_carousel.
start_carousel(b, fs, pick) ==
    LET b1 == display_random_poster([b EXCEPT !.status = "CAROUSEL",
                                              !.toggle_timer = Inactive], fs, pick)
    IN  IF b1.raised # "" THEN b1
        ELSE [b1 EXCEPT !.carousel_timer = AdvanceInterval]

\* ProgramBrowser.toggle_view.
toggle_view_always_carousel(b, fs, pick) ==
    IF b.status = "TREE_VIEW" THEN start_carousel(b, fs, pick)
    ELSE IF b.status = "POSTER_VIEW" THEN start_carousel(b, fs, pick)
    ELSE b

toggle_view_poster_only(b, fs, pick) ==
    IF b.status = "POSTER_VIEW" THEN display_tree_view(b)
    ELSE b

toggle_view(b, fs, pick) ==
    IF b.status = "TREE_VIEW" THEN start_carousel(b, fs, pick)
    ELSE IF b.status = "POSTER_VIEW" THEN display_tree_view(b)
    ELSE b

\* ProgramBrowser.keyPressEvent: the keys of the window that has the focus.
ProgramBrowser_keyPressEvent(b, key, fs) ==
    IF b.status = "CAROUSEL" /\ key \in ProgramBrowser_VALID_KEYS THEN display_tree_view(b)
    ELSE IF b.status = "TREE_VIEW" /\ key \in ProgramBrowser_VALID_KEYS
        THEN [b EXCEPT !.toggle_timer = PauseInterval]
    ELSE IF b.status = "POSTER_VIEW"
        THEN IF key = BrowserKeyMap_PAUSE THEN [b EXCEPT !.toggle_timer = PauseInterval]
             ELSE IF key = COLLAPSE THEN display_tree_view(b)
             ELSE IF key = BrowserKeyMap_ADVANCE THEN display_next_poster(b, fs)
             ELSE IF key = BrowserKeyMap_BACKUP THEN display_previous_poster(b, fs)
             ELSE b
    ELSE b

\* ProgramTreeWidget.keyPressEvent: the keys of the tree that has the focus;
\* move is what the base class does to the cursor and the expanded item.  A
\* key the base class ignores goes on to ProgramBrowser.keyPressEvent, which
\* in the tree view starts the toggle timer that key_pressed has started.
ProgramTreeWidget_keyPressEvent_no_restart(b, key, fs, move) ==
    LET b1 == b
        b2 == IF key # EXPAND THEN b1
              ELSE IF b1.current_item = NoItem THEN [b1 EXCEPT !.raised = "AttributeError"]
              ELSE IF b1.current_item.child # 0 THEN display_current_poster(b1, fs)
              ELSE b1
    IN  IF b2.raised # "" THEN b2
        ELSE IF b2.key_press_events_enabled
            THEN [b2 EXCEPT !.current_item = move[1], !.expanded = move[2]]
        ELSE IF key = COLLAPSE THEN display_tree_view(b2)
        ELSE b2

ProgramTreeWidget_keyPressEvent(b, key, fs, move) ==
    LET b1 == IF key \in ProgramBrowser_VALID_KEYS
              THEN [b EXCEPT !.toggle_timer = PauseInterval] ELSE b
        b2 == IF key # EXPAND THEN b1
              ELSE IF b1.current_item = NoItem THEN [b1 EXCEPT !.raised = "AttributeError"]
              ELSE IF b1.current_item.child # 0 THEN display_current_poster(b1, fs)
              ELSE b1
    IN  IF b2.raised # "" THEN b2
        ELSE IF b2.key_press_events_enabled
            THEN [b2 EXCEPT !.current_item = move[1], !.expanded = move[2]]
        ELSE IF key = COLLAPSE THEN display_tree_view(b2)
        ELSE b2

\* ProgramBrowser.__init__, up to start_carousel().
NewProgramBrowser(df, sh, fs) ==
    LET prog == PosterProgram(df, sh)
    IN  [aborted                  |-> FALSE,
         raised                   |-> "",
         event                    |-> "",
         key                      |-> "",
         status                   |-> "TREE_VIEW",
         current_poster           |-> None,
         program                  |-> prog,
         items                    |-> ProgramBrowser_load_program(fs, prog),
         current_item             |-> NoItem,
         expanded                 |-> 0,
         tree_visible             |-> TRUE,
         key_press_events_enabled |-> TRUE,
         focus                    |-> "window",
         carousel_timer           |-> Inactive,
         toggle_timer             |-> Inactive,
         header_timer             |-> FALSE,
         header_poster            |-> None,
         poster_label             |-> NoPixmap,
         poster_label_visible     |-> FALSE]

ProgramBrowser(df, sh, fs, pick) == start_carousel(NewProgramBrowser(df, sh, fs), fs, pick)

\* ------------------------------------------------------------------------
\* The program browser, its keyboard and its timers.
\* ------------------------------------------------------------------------
\* The configuration files: two sessions with up to MaxRows posters each, the
\* rows by descending Friendly ID; all posters have images, or those with an
\* odd Friendly ID.
\* The browser is there once its constructor has drawn its first poster.
InitBrowser ==
    /\ program_df \in ProgramSheets(Cardinality(SessionIds), {<<Text(0), Text(1)>>})
    /\ sheets \in {[i \in SessionIds |-> MakeSheet(i, [j \in 1 .. k[i] |-> ScreenId], TRUE)] :
                        k \in [SessionIds -> 0 .. MaxRows]}
    /\ assets \in {OddAssets, AllAssets}
    /\ now = 0
    /\ magic_file = FALSE
    /\ marker_reloads = 0
    /\ call = NoCall
    /\ program = NoProgram
    /\ slideshow = [aborted |-> TRUE]
    /\ directory = [aborted |-> TRUE]
    /\ \E pick \in random_poster(PosterProgram(program_df, sheets)) :
        /\ pick.raised = ""
        /\ browser = ProgramBrowser(program_df, sheets, assets, pick)

\* A window at the start of a callback.
EnterBrowser(b, event, key) == [b EXCEPT !.raised = "", !.event = event, !.key = key]

\* The user presses a key: it goes to the widget that has the focus.
BrowserKeyPress ==
    /\ ~browser.aborted
    /\ \E key \in ProgramBrowser_VALID_KEYS \cup {"Space"}, abort \in BOOLEAN :
        LET b == EnterBrowser(browser, "key", key)
        IN  IF b.focus = "tree"
            THEN \E move \in TreeMoves(b, key) :
                    browser' = Outcome(ProgramTreeWidget_keyPressEvent(b, key, assets, move), abort)
            ELSE browser' = Outcome(ProgramBrowser_keyPressEvent(b, key, assets), abort)
    /\ UNCHANGED <<files, now, call, program, magic_file, marker_reloads, slideshow, directory>>

\* carousel_timer.timeout: the timer is periodic.
CarouselTimeout ==
    /\ ~browser.aborted
    /\ browser.carousel_timer = 0
    /\ \E pick \in random_poster(browser.program), abort \in BOOLEAN :
        browser' = Outcome(display_random_poster(
                        [EnterBrowser(browser, "carousel_timer", "")
                            EXCEPT !.carousel_timer = AdvanceInterval], assets, pick), abort)
    /\ UNCHANGED <<files, now, call, program, magic_file, marker_reloads, slideshow, directory>>

\* toggle_timer.timeout: the timer is periodic.
ToggleTimeout ==
    /\ ~browser.aborted
    /\ browser.toggle_timer = 0
    /\ \E pick \in random_poster(browser.program), abort \in BOOLEAN :
        browser' = Outcome(toggle_view(
                        [EnterBrowser(browser, "toggle_timer", "")
                            EXCEPT !.toggle_timer = PauseInterval], assets, pick), abort)
    /\ UNCHANGED <<files, now, call, program, magic_file, marker_reloads, slideshow, directory>>

\* A tick of the timers: none is due.
BrowserTick ==
    /\ ~browser.aborted
    /\ browser.carousel_timer # 0
    /\ browser.toggle_timer # 0
    /\ browser.carousel_timer # Inactive \/ browser.toggle_timer # Inactive
    /\ browser' = [browser EXCEPT !.event = "tick",
                                  !.key = "",
                                  !.carousel_timer = TimerTick(@),
                                  !.toggle_timer = TimerTick(@)]
    /\ UNCHANGED <<files, now, call, program, magic_file, marker_reloads, slideshow, directory>>

NextBrowser ==
    \/ BrowserKeyPress
    \/ CarouselTimeout
    \/ ToggleTimeout
    \/ BrowserTick

SpecBrowser == InitBrowser /\ [][NextBrowser]_vars

\* The session, session_index and program_index of every poster of a program.
Positions(prog) ==
    [i \in 1 .. Len(prog.lists) |->
        [j \in 1 .. Len(prog.lists[i]) |->
            <<prog.lists[i][j].session, prog.lists[i][j].session_index,
              prog.lists[i][j].program_index>>]]

\* C5: in the program of the browser, at every moment, the poster at place i
\* of the list of session S has session S and session_index i, the
\* program_index values are 0 .. sum(P_i)-1 handed out in session order,
\* select_by_program_index(p.program_index) is p, and the three fields are
\* those the constructor of the program gave: displaying a poster (random,
\* selected, next or previous) and unloading one do not change them.
C5_PositionsConsistent ==
    LET prog  == browser.program
        total == NumPosters(prog, Len(prog.sessions))
    IN  /\ Len(prog.flattened) = total
        /\ \A S \in 1 .. Len(prog.lists) : \A i \in 1 .. Len(prog.lists[S]) :
            LET p == prog.lists[S][i]
            IN  /\ p.session = S
                /\ p.session_index = i - 1
                /\ p.program_index = NumPosters(prog, S - 1) + i - 1
                /\ select_by_program_index(prog, p.program_index) = Returned(p)
        /\ \A k \in 1 .. total : prog.flattened[k].program_index = k - 1
        /\ Positions(prog) = Positions(PosterProgram(program_df, sheets))

\* The DOWN key in the poster view has wrapped from the last poster of the
\* second session to its first one, while the first session has posters too:
\* the poster shown has its pixmaps, the one left has none.
C5_Witness ==
    /\ browser.event = "key"
    /\ browser.key = "Down"
    /\ browser.status = "POSTER_VIEW"
    /\ Len(browser.program.lists[1]) > 0
    /\ Len(browser.program.lists[2]) > 1
    /\ browser.current_poster = address(browser.program, 2, 1)
    /\ browser.program.flattened[browser.current_poster].poster_pixmap # NoPixmap
    /\ \A a \in 1 .. Len(browser.program.flattened) :
            a # browser.current_poster => browser.program.flattened[a].poster_pixmap = NoPixmap

\* ------------------------------------------------------------------------
\* gui.py: SessionDirectory.
\* ------------------------------------------------------------------------
\* SessionDirectory._load_program, from session i on: the tree gets one
\* top-level item per ongoing session (here: its row in the program sheet),
\* and _reload_due is the earliest End Date among them.
RECURSIVE SessionDirectory_load_program(_, _, _)
SessionDirectory_load_program(d, i, wallclock) ==
    IF i > Len(d.program.sessions) THEN d
    ELSE LET session == d.program.sessions[i]
         IN  IF ~ongoing(session, d.display_datetime, wallclock)
             THEN SessionDirectory_load_program(d, i + 1, wallclock)
             ELSE SessionDirectory_load_program(
                    [d EXCEPT !.reload_due = IF @ = None \/ session.end < @
                                             THEN session.end ELSE @,
                              !.items = Append(@, i)],
                    i + 1, wallclock)

\* SessionDirectory.expand_all.
expand_all(d) == [d EXCEPT !.expanded = 1 .. d.num_sessions]

\* SessionDirectory.toggle_session, the callback of toggle_timer, which no
\* line of the class starts.
toggle_session(d) ==
    IF d.num_sessions = 0 THEN [d EXCEPT !.raised = "ZeroDivisionError"]
    ELSE LET index == PyMod(d.current_index + 1, d.num_sessions)
         IN  [d EXCEPT !.current_index = index, !.expanded = {index + 1}]

\* The three lines that load the program, in __init__ and in _check_reload;
\* _load_program starts by setting _reload_due to None and clearing the tree.
load_and_expand_keep_due(d, wallclock) ==
    LET d1 == SessionDirectory_load_program(
                [d EXCEPT !.items = <<>>, !.expanded = {}],
                1, wallclock)
    IN  expand_all([d1 EXCEPT !.num_sessions = Len(d1.items), !.current_index = 0 - 1])

load_and_expand(d, wallclock) ==
    LET d1 == SessionDirectory_load_program(
                [d EXCEPT !.reload_due = None, !.items = <<>>, !.expanded = {}],
                1, wallclock)
    IN  expand_all([d1 EXCEPT !.num_sessions = Len(d1.items), !.current_index = 0 - 1])

\* SessionDirectory._check_reload; magic is what read_magic_file() returned.
\* With no ongoing session _reload_due is None, and datetime > None raises
\* TypeError.
SessionDirectory_check_reload_at_due(d, magic, wallclock) ==
    IF magic # 0 THEN [load_and_expand(d, wallclock) EXCEPT !.reloaded = TRUE]
    ELSE IF d.reload_due = None THEN [d EXCEPT !.raised = "TypeError"]
    ELSE IF wallclock >= d.reload_due
         THEN [load_and_expand(d, wallclock) EXCEPT !.reloaded = TRUE]
         ELSE d

SessionDirectory_check_reload(d, magic, wallclock) ==
    IF magic # 0 THEN [load_and_expand(d, wallclock) EXCEPT !.reloaded = TRUE]
    ELSE IF d.reload_due = None THEN [d EXCEPT !.raised = "TypeError"]
    ELSE IF wallclock > d.reload_due
         THEN [load_and_expand(d, wallclock) EXCEPT !.reloaded = TRUE]
         ELSE d

\* SessionDirectory.__init__: the toggle timer is never started, the header
\* timer is started and stopped, the reload timer is started.
SessionDirectory(display_datetime, df, sh, wallclock) ==
    [load_and_expand(
        [aborted          |-> FALSE,
         raised           |-> "",
         reloaded         |-> FALSE,
         event            |-> "",
         key              |-> "",
         display_datetime |-> display_datetime,
         program          |-> PosterProgram(df, sh),
         reload_due       |-> None,
         items            |-> <<>>,
         expanded         |-> {},
         num_sessions     |-> 0,
         current_index    |-> 0 - 1,
         toggle_timer     |-> Inactive,
         header_timer     |-> FALSE,
         reload_timer     |-> Inactive], wallclock)
     EXCEPT !.reload_timer = ReloadInterval]

\* ------------------------------------------------------------------------
\* A slideshow and a session directory of the same installation: they look
\* for the same magic file.
\* ------------------------------------------------------------------------
InitMarker ==
    /\ program_df \in SlideShowPrograms
    /\ sheets \in {[i \in SessionIds |-> UniformSheet(i, IF i = 1 THEN k ELSE MaxRows)] :
                        k \in {0, MaxRows}}
    /\ assets = OddAssets
    /\ now = 0
    /\ magic_file = FALSE
    /\ marker_reloads = 0
    /\ call = NoCall
    /\ program = NoProgram
    /\ browser = [aborted |-> TRUE]
    /\ \E display_datetime \in {None, 0} :
        /\ slideshow = SlideShow(display_datetime, program_df, sheets, assets, now)
        /\ directory = SessionDirectory(display_datetime, program_df, sheets, now)

\* reload_timer.timeout of the directory: the timer is periodic.
DirectoryReloadTimeout ==
    /\ ~directory.aborted
    /\ directory.reload_timer = 0
    /\ LET magic == read_magic_file(magic_file)
           after == SessionDirectory_check_reload(
                        [Enter(directory, "reload_timer", "")
                            EXCEPT !.reload_timer = ReloadInterval], magic.value, now)
       IN  /\ \E abort \in BOOLEAN : directory' = Outcome(after, abort)
           /\ magic_file' = magic.exists
           /\ marker_reloads' = IF magic_file /\ after.reloaded
                                THEN marker_reloads + 1 ELSE marker_reloads
    /\ UNCHANGED <<files, now, call, program, slideshow, browser>>

\* A tick of the timer of the directory, which is not due.
DirectoryTick ==
    /\ ~directory.aborted
    /\ directory.reload_timer > 0
    /\ directory' = [directory EXCEPT !.event = "tick", !.reload_timer = TimerTick(@)]
    /\ UNCHANGED <<files, now, call, program, magic_file, marker_reloads, slideshow, browser>>

NextMarker ==
    \/ SlideShowKeyPress
    \/ AdvanceTimeout
    \/ ResumeTimeout
    \/ ReloadTimeout
    \/ SlideShowTick
    \/ ClockAdvance
    \/ CreateMagicFile
    \/ DirectoryReloadTimeout
    \/ DirectoryTick

SpecMarker == InitMarker /\ [][NextMarker]_vars

\* A step that is the reload check of the directory.
DirectoryCheck == directory' # directory /\ directory'.event = "reload_timer"

\* The rows of the sessions of the program sheet that are ongoing at t.
RECURSIVE ongoing_rows(_, _)
ongoing_rows(i, t) ==
    IF i > Len(program_df) THEN <<>>
    ELSE LET session == PosterSession(i, program_df[i])
         IN  (IF session.start # None /\ session.end # None
                    /\ session.start <= t /\ t < session.end
              THEN <<i>> ELSE <<>>) \o ongoing_rows(i + 1, t)

\* C8: a reload check, of the slideshow or of the session directory, that
\* finds the magic file leaves it deleted and reloads (the slideshow holds the
\* roster of that moment, the directory the sessions ongoing at that moment),
\* which is the one reload this magic file has caused since it was created; a
\* check that finds no magic file leaves none, adds no reload to its count
\* and reloads only because its session is over or its reload is due.
C8_MarkerReloadsOnce ==
    [][LET t_show == IF slideshow.display_datetime = None THEN now
                     ELSE slideshow.display_datetime
           t_dir  == IF directory.display_datetime = None THEN now
                     ELSE directory.display_datetime
       IN  /\ (SlideShowStep("reload_timer") /\ magic_file)
                => /\ ~magic_file'
                   /\ slideshow'.reloaded
                   /\ slideshow'.poster_roster.posters =
                        roster_load_pixmaps(assets,
                            PosterRoster(program_df, sheets, ScreenId,
                                         slideshow.display_datetime, now)).posters
                   /\ marker_reloads = 0
                   /\ marker_reloads' = 1
           /\ (DirectoryCheck /\ magic_file)
                => /\ ~magic_file'
                   /\ directory'.reloaded
                   /\ directory'.items = ongoing_rows(1, t_dir)
                   /\ marker_reloads = 0
                   /\ marker_reloads' = 1
           /\ (SlideShowStep("reload_timer") /\ ~magic_file)
                => /\ ~magic_file'
                   /\ marker_reloads' = marker_reloads
                   /\ slideshow'.reloaded =>
                        /\ slideshow.poster_roster.session # NoSession
                        /\ now >= slideshow.poster_roster.session.end
           /\ (DirectoryCheck /\ ~magic_file)
                => /\ ~magic_file'
                   /\ marker_reloads' = marker_reloads
                   /\ directory'.reloaded =>
                        /\ directory.reload_due # None
                        /\ now > directory.reload_due
           /\ marker_reloads' <= 1
      ]_vars

\* The directory has found the magic file, deleted it and reloaded, which is
\* the one reload the file has caused; the last check of the slideshow, of
\* two or more posters, did not reload.
C8_Witness ==
    /\ ~magic_file
    /\ marker_reloads = 1
    /\ directory.event = "reload_timer"
    /\ directory.reloaded
    /\ directory.raised = ""
    /\ slideshow.event = "reload_timer"
    /\ ~slideshow.reloaded
    /\ slideshow.raised = ""
    /\ Len(slideshow.poster_roster.posters) >= 2

\* ------------------------------------------------------------------------
\* The slideshow: what stop() leaves behind.
\* ------------------------------------------------------------------------
\* C11: a slideshow that is STOPPED, as stop() leaves it directly or at the
\* start of a reload of the roster, has none of its advance, reload and
\* resume timers armed.
C11_StoppedDisarmsTimers ==
    (~slideshow.aborted /\ slideshow.status = "STOPPED")
        => /\ slideshow.advance_timer = Inactive
           /\ slideshow.reload_timer = Inactive
           /\ slideshow.resume_timer = Inactive

\* ------------------------------------------------------------------------
\* The program browser: its three views.
\* ------------------------------------------------------------------------
\* A step of the browser that is the callback of the given event: every
\* callback and every tick records its event.
BrowserStep(event) == browser' # browser /\ browser'.event = event

\* The poster at place a is on display with its pixmaps loaded.
Displays(b, a) ==
    /\ a \in 1 .. Len(b.program.flattened)
    /\ b.current_poster = a
    /\ b.header_poster = a
    /\ b.poster_label_visible
    /\ b.poster_label = _load_pixmap_w(poster_image_path(assets, b.program.flattened[a].friendly_id))
    /\ b.program.flattened[a].poster_pixmap = b.poster_label

\* C12: in CAROUSEL a press of any of the five mapped keys moves the browser
\* to TREE_VIEW with the carousel timer stopped; a step that is not a key
\* press leaves it in CAROUSEL; and every expiry of the carousel timer puts a
\* poster of the program on display.
C12_CarouselUntilKey ==
    [][browser.status = "CAROUSEL" =>
        /\ (BrowserStep("key") /\ browser'.key \in {"Right", "Left", "Down", "Up", "Return"})
                => /\ browser'.status = "TREE_VIEW"
                   /\ browser'.carousel_timer = Inactive
        /\ ~BrowserStep("key") => browser'.status = "CAROUSEL"
        /\ BrowserStep("carousel_timer")
                => \E a \in 1 .. Len(browser.program.flattened) : Displays(browser', a)
      ]_vars

\* C13: in TREE_VIEW the idle (toggle) timer is armed; every press of a
\* mapped key sets it back to a full interval, a tick takes one tick off it
\* and a press of another key leaves it alone; and the browser moves to
\* CAROUSEL in exactly the steps that are the expiry of that timer.
C13_TreeViewIdleTimeout ==
    [][browser.status = "TREE_VIEW" =>
        /\ browser.toggle_timer \in 0 .. PauseInterval
        /\ (BrowserStep("key") /\ browser'.key \in {"Right", "Left", "Down", "Up", "Return"})
                => browser'.toggle_timer = PauseInterval
        /\ (BrowserStep("key") /\ browser'.key \notin {"Right", "Left", "Down", "Up", "Return"})
                => browser'.toggle_timer = browser.toggle_timer
        /\ BrowserStep("tick") => browser'.toggle_timer = browser.toggle_timer - 1
        /\ BrowserStep("toggle_timer") => browser.toggle_timer = 0
        /\ browser'.status = "CAROUSEL" <=> BrowserStep("toggle_timer")
        /\ browser' # browser =>
                \/ BrowserStep("key") \/ BrowserStep("tick") \/ BrowserStep("toggle_timer")
      ]_vars

\* The idle timer has expired in a tree view in which the user had expanded
\* a session, and the carousel shows a poster.
C13_Witness ==
    /\ browser.event = "toggle_timer"
    /\ browser.status = "CAROUSEL"
    /\ browser.raised = ""
    /\ browser.expanded # 0
    /\ browser.carousel_timer = AdvanceInterval
    /\ browser.focus = "window"
    /\ ~browser.tree_visible

\* C14: in TREE_VIEW a press of EXPAND while the current item is a leaf moves
\* the browser to POSTER_VIEW with the poster of that leaf on display, and a
\* press of EXPAND while the current item is the top-level item of a session
\* leaves it in TREE_VIEW with no poster on display.
C14_ExpandOnLeafShowsPoster ==
    [][(browser.status = "TREE_VIEW" /\ BrowserStep("key") /\ browser'.key = "Right") =>
        LET item == browser.current_item
        IN  /\ item # NoItem
            /\ item.child # 0
                    => /\ browser'.status = "POSTER_VIEW"
                       /\ browser'.raised = ""
                       /\ Displays(browser', browser.items[item.session][item.child])
                       /\ ~browser'.tree_visible
            /\ item.child = 0
                    => /\ browser'.status = "TREE_VIEW"
                       /\ browser'.tree_visible
                       /\ ~browser'.poster_label_visible
      ]_vars

\* EXPAND on the second leaf of a session has put its poster on display.
C14_Witness ==
    /\ browser.event = "key"
    /\ browser.key = "Right"
    /\ browser.status = "POSTER_VIEW"
    /\ browser.current_item.child = 2
    /\ browser.current_poster = browser.items[browser.current_item.session][2]

\* display_next_poster, n times in a row.
RECURSIVE NextTimes(_, _)
NextTimes(b, n) == IF n = 0 THEN b ELSE NextTimes(display_next_poster(b, assets), n - 1)

\* C15: in POSTER_VIEW, with the poster at position i of a session S of P_S
\* posters on display, ADVANCE displays the poster of S at position
\* (i+1) mod P_S and BACKUP the one at (i-1) mod P_S; next followed by
\* previous displays the starting poster again, and so do P_S next in a row.
C15_NextPreviousInSession ==
    [][(/\ browser.status = "POSTER_VIEW"
        /\ BrowserStep("key")
        /\ browser'.key \in {"Down", "Up"}) =>
        LET prog == browser.program
            p    == prog.flattened[browser.current_poster]
            n    == Len(prog.lists[p.session])
            i    == p.session_index
            j    == IF browser'.key = "Down" THEN (IF i + 1 = n THEN 0 ELSE i + 1)
                                            ELSE (IF i = 0 THEN n - 1 ELSE i - 1)
            shown == browser'.program.flattened[browser'.current_poster]
        IN  /\ browser'.status = "POSTER_VIEW"
            /\ browser'.raised = ""
            /\ Displays(browser', address(prog, p.session, j + 1))
            /\ shown.session = p.session
            /\ shown.session_index = j
            /\ shown.friendly_id = prog.lists[p.session][j + 1].friendly_id
            /\ display_previous_poster(display_next_poster(browser, assets), assets).current_poster
                    = browser.current_poster
            /\ NextTimes(browser, n).current_poster = browser.current_poster
      ]_vars

\* BACKUP on the first poster of the first session, which has two or more
\* posters, has displayed its last poster, while the second session has
\* posters too.
C15_Witness ==
    /\ browser.event = "key"
    /\ browser.key = "Up"
    /\ browser.status = "POSTER_VIEW"
    /\ Len(browser.program.lists[1]) >= 2
    /\ Len(browser.program.lists[2]) >= 1
    /\ browser.current_poster = address(browser.program, 1, Len(browser.program.lists[1]))
    /\ browser.current_item = ChildItem(1, 1)

\* C16: a step that takes the browser out of POSTER_VIEW is a press of
\* COLLAPSE or the expiry of the idle (toggle) timer and takes it to
\* TREE_VIEW, and both always do; a press of PAUSE, ADVANCE or BACKUP leaves
\* it in POSTER_VIEW with the idle timer set back to a full interval.
C16_PosterViewExits ==
    [][browser.status = "POSTER_VIEW" =>
        /\ browser'.status # "POSTER_VIEW"
                => /\ browser'.status = "TREE_VIEW"
                   /\ \/ BrowserStep("key") /\ browser'.key = "Left"
                      \/ BrowserStep("toggle_timer")
        /\ (BrowserStep("key") /\ browser'.key = "Left") => browser'.status = "TREE_VIEW"
        /\ BrowserStep("toggle_timer") => browser'.status = "TREE_VIEW"
        /\ (BrowserStep("key") /\ browser'.key \in {"Return", "Down", "Up"})
                => /\ browser'.status = "POSTER_VIEW"
                   /\ browser'.toggle_timer = PauseInterval
      ]_vars

\* The idle timer has expired in the poster view: the tree is back, with the
\* cursor on the leaf of the poster that was on display.
C16_Witness ==
    /\ browser.event = "toggle_timer"
    /\ browser.status = "TREE_VIEW"
    /\ browser.current_poster # None
    /\ browser.current_item.child # 0
    /\ browser.items[browser.current_item.session][browser.current_item.child]
            = browser.current_poster
    /\ browser.tree_visible
    /\ browser.toggle_timer = PauseInterval

\* The three pixmaps of a poster are loaded, or are all None.
Loaded(poster) ==
    /\ poster.poster_pixmap # NoPixmap
    /\ poster.presenter_pixmap # NoPixmap
    /\ poster.qrcode_pixmap # NoPixmap
Unloaded(poster) ==
    /\ poster.poster_pixmap = NoPixmap
    /\ poster.presenter_pixmap = NoPixmap
    /\ poster.qrcode_pixmap = NoPixmap

\* C17: in POSTER_VIEW the poster on display has its three pixmaps loaded,
\* and in TREE_VIEW no poster of the program has a pixmap loaded.
C17_TreeViewHoldsNoPixmaps ==
    /\ browser.status = "POSTER_VIEW"
            => Loaded(browser.program.flattened[browser.current_poster])
    /\ browser.status = "TREE_VIEW"
            => \A a \in 1 .. Len(browser.program.flattened) :
                    Unloaded(browser.program.flattened[a])

\* ------------------------------------------------------------------------
\* The pixmaps of one poster, loaded and unloaded over and over, on every
\* asset directory.
\* ------------------------------------------------------------------------
\* The image files a directory may hold for the posters 1 .. MaxRows.
PosterFiles ==
    {[folder |-> f, file |-> _image_file_name(k)] :
        f \in {POSTER_FOLDER_NAME, PRESENTER_FOLDER_NAME, QRCODE_FOLDER_NAME},
        k \in 1 .. MaxRows}

\* The call holds the poster as it is now (result), as it was after its first
\* load (args[1], once args[2]) and whether it was unloaded since (args[3]).
InitPixmaps ==
    /\ program_df = <<>>
    /\ sheets = [i \in SessionIds |-> MissingSheet]
    /\ assets \in SUBSET PosterFiles
    /\ now = 0
    /\ magic_file = FALSE
    /\ marker_reloads = 0
    /\ program = NoProgram
    /\ slideshow = [aborted |-> TRUE]
    /\ browser = [aborted |-> TRUE]
    /\ directory = [aborted |-> TRUE]
    /\ \E friendly_id \in 1 .. MaxRows :
        LET poster == Poster([friendly_id |-> friendly_id, screen_id |-> ScreenId])
        IN  call = [op |-> "Poster", args |-> <<poster, FALSE, FALSE>>, result |-> poster]

LoadPosterPixmaps ==
    /\ call.op # ""
    /\ LET poster == load_poster_pixmaps(assets, call.result)
       IN  call' = [op     |-> "load_poster_pixmaps",
                    args   |-> IF call.args[2] THEN call.args ELSE <<poster, TRUE, FALSE>>,
                    result |-> poster]
    /\ UNCHANGED <<files, now, program, windows>>

UnloadPixmaps ==
    /\ call.op # ""
    /\ call' = [op     |-> "unload_pixmaps",
                args   |-> <<call.args[1], call.args[2], call.args[2]>>,
                result |-> unload_pixmaps(call.result)]
    /\ UNCHANGED <<files, now, program, windows>>

NextPixmaps == LoadPosterPixmaps \/ UnloadPixmaps

SpecPixmaps == InitPixmaps /\ [][NextPixmaps]_vars

\* The file of a poster in a folder if the directory has it, or else the
\* placeholder.
ResolvedFile(folder, friendly_id, placeholder) ==
    IF [folder |-> folder, file |-> <<0, 0, friendly_id>>] \in assets
    THEN [folder |-> folder, file |-> <<0, 0, friendly_id>>]
    ELSE placeholder

\* C18: after unload_pixmaps the three pixmaps of a poster are None; after
\* every load, the first one and those that follow an unload alike, they are
\* the poster image scaled to the poster width and the presenter picture and
\* the QR code scaled to the portrait height, each from the file of the
\* poster if the directory has it and else from the placeholder, which makes
\* them equal to those of the first load; nothing else of the poster changes.
C18_ReloadSamePixmaps ==
    /\ call.op = "unload_pixmaps" => Unloaded(call.result)
    /\ call.op = "load_poster_pixmaps" =>
        LET id == call.result.friendly_id
            poster_file    == ResolvedFile("posters_raster", id, MISSING_POSTER_PATH)
            presenter_file == ResolvedFile("presenters_crop", id, MISSING_PICTURE_PATH)
            qrcode_file    == ResolvedFile("qrcodes", id, MISSING_QRCODE_PATH)
        IN  /\ call.result = call.args[1]
            /\ call.result.poster_pixmap =
                    [folder |-> poster_file.folder, file |-> poster_file.file,
                     scaled |-> "poster_width"]
            /\ call.result.presenter_pixmap =
                    [folder |-> presenter_file.folder, file |-> presenter_file.file,
                     scaled |-> "portrait_height"]
            /\ call.result.qrcode_pixmap =
                    [folder |-> qrcode_file.folder, file |-> qrcode_file.file,
                     scaled |-> "portrait_height"]
    /\ call.op \in {"unload_pixmaps", "load_poster_pixmaps"} =>
            unload_pixmaps(call.result) =
                Poster([friendly_id |-> call.result.friendly_id, screen_id |-> ScreenId])

\* A poster loaded again after an unload, in a directory that has its poster
\* image and not its QR code.
C18_Witness ==
    /\ call.op = "load_poster_pixmaps"
    /\ call.args[3]
    /\ call.result.poster_pixmap.folder = "posters_raster"
    /\ call.result.qrcode_pixmap.folder = MISSING_QRCODE_PATH.folder
    /\ call.result = call.args[1]

\* ------------------------------------------------------------------------
\* The session directory, its reload timer, the clock and the magic file.
\* ------------------------------------------------------------------------
\* The session windows of these files: an early, a long and a late session,
\* one whose Start Date does not parse and one whose End Date does not.
DirectoryWindows ==
    {<<Text(0), Text(1)>>, <<Text(0), Text(MaxTime)>>, <<Text(1), Text(MaxTime)>>,
     <<BadText, Text(MaxTime)>>, <<Text(0), BadText>>}

InitDirectory ==
    /\ \E n \in 0 .. Cardinality(SessionIds) :
        /\ program_df \in ProgramSheets(n, DirectoryWindows)
        /\ sheets = [i \in SessionIds |-> IF i <= n THEN UniformSheet(i, 1) ELSE MissingSheet]
    /\ assets = OddAssets
    /\ now = 0
    /\ magic_file = FALSE
    /\ marker_reloads = 0
    /\ call = NoCall
    /\ program = NoProgram
    /\ slideshow = [aborted |-> TRUE]
    /\ browser = [aborted |-> TRUE]
    /\ \E display_datetime \in Times \cup {None} :
        directory = SessionDirectory(display_datetime, program_df, sheets, now)

NextDirectory ==
    \/ DirectoryReloadTimeout
    \/ DirectoryTick
    \/ ClockAdvance
    \/ CreateMagicFile

SpecDirectory == InitDirectory /\ [][NextDirectory]_vars

\* C19: a directory that shows k >= 1 ongoing sessions has its advance
\* (toggle) timer armed, so that the expansion moves to the next session at
\* every advance interval, and one session expanded at a time.
C19_ExpansionCycles ==
    (~directory.aborted /\ directory.num_sessions >= 1)
        => /\ directory.toggle_timer # Inactive
           /\ Cardinality(directory.expanded) = 1

\* The earliest End Date among the rows of the program sheet in rows.
EarliestEnd(rows) ==
    CHOOSE t \in Times :
        /\ \E k \in 1 .. Len(rows) : t = program_df[rows[k]].end.t
        /\ \A k \in 1 .. Len(rows) : t <= program_df[rows[k]].end.t

\* What the directory holds after a load whose reference time is t.
LoadedAt(d, t) ==
    /\ d.items = ongoing_rows(1, t)
    /\ d.num_sessions = Len(d.items)
    /\ d.items = <<>> => d.reload_due = None
    /\ d.items # <<>> => /\ d.reload_due = EarliestEnd(d.items)
                         /\ d.reload_due > t

\* C20: after every load of the directory, the one of the constructor and
\* those of the reload checks, the sessions on display are exactly the
\* sessions of the program sheet that are ongoing at the reference time (the
\* display date, or the wall clock when none was given), and the reload
\* deadline is the earliest end of those sessions, later than the reference
\* time, or None when there are none.
C20_LoadShowsOngoing ==
    /\ LoadedAt(directory, IF directory.display_datetime = None THEN now
                           ELSE directory.display_datetime)
    /\ [][(DirectoryCheck /\ directory'.reloaded)
            => LoadedAt(directory', IF directory.display_datetime = None THEN now
                                    ELSE directory.display_datetime)]_vars

\* A reload check at instant 1 has replaced the session that ended by the
\* one that goes on, whose end is the new deadline.
C20_Witness ==
    /\ directory.event = "reload_timer"
    /\ directory.reloaded
    /\ directory.display_datetime = None
    /\ now = 1
    /\ directory.items = <<2>>
    /\ directory.reload_due = MaxTime
    /\ Len(program_df) = 2
    /\ program_df[1].end = Text(1)
    /\ program_df[1].start = Text(0)

\* C21: a reload check of the directory loads the sessions again exactly
\* when it finds the magic file or the wall clock is past the reload
\* deadline; a check that finds no magic file at or before the deadline, or
\* with no deadline set, leaves the sessions on display, the deadline, the
\* number of sessions, the expansion and the current index as they were.
C21_DirectoryReloadsWhenDue ==
    [][DirectoryCheck =>
        /\ directory'.reloaded <=>
                \/ magic_file
                \/ directory.reload_due # None /\ now > directory.reload_due
        /\ directory'.reloaded =>
                /\ LoadedAt(directory', IF directory.display_datetime = None THEN now
                                        ELSE directory.display_datetime)
                /\ directory'.current_index = 0 - 1
        /\ ~directory'.reloaded =>
                /\ directory'.items = directory.items
                /\ directory'.reload_due = directory.reload_due
                /\ directory'.num_sessions = directory.num_sessions
                /\ directory'.expanded = directory.expanded
                /\ directory'.current_index = directory.current_index
      ]_vars

\* A check with no magic file, made at the very instant of the deadline, has
\* left the session on display.
C21_Witness ==
    /\ directory.event = "reload_timer"
    /\ ~directory.reloaded
    /\ directory.raised = ""
    /\ ~magic_file
    /\ directory.display_datetime = None
    /\ directory.reload_due = now
    /\ directory.items # <<>>

\* The Friendly IDs of the rows of the sheet of a session.
SheetIds(session_id) ==
    {sheets[session_id].rows[k].friendly_id : k \in 1 .. Len(sheets[session_id].rows)}

\* C22: a session whose Start Date or End Date does not parse is built all
\* the same, with None for that field; it is ongoing at no time, none of its
\* posters is in the roster of any screen at any time, and the session
\* directory does not list it.
C22_UnparsedSessionNeverOngoing ==
    \A i \in 1 .. Len(program_df) :
        (~program_df[i].start.ok \/ ~program_df[i].end.ok) =>
            LET session == session_list(program_df)[i]
            IN  /\ session.start = None <=> ~program_df[i].start.ok
                /\ session.end = None <=> ~program_df[i].end.ok
                /\ \A t \in Times \cup {None} : ~ongoing(session, t, now)
                /\ \A screen_id \in Screens, t \in Times \cup {None} :
                     LET roster == PosterRoster(program_df, sheets, screen_id, t, now)
                     IN  /\ roster.session.row # i
                         /\ \A j \in 1 .. Len(roster.posters) :
                                roster.posters[j].friendly_id \notin SheetIds(session.id_)
                /\ ~directory.aborted =>
                     \A k \in 1 .. Len(directory.items) : directory.items[k] # i

\* A reload of the directory at a time inside the dates that did parse lists
\* the other session and not the one whose Start Date does not parse, and
\* the roster of that time holds a poster.
C22_Witness ==
    /\ Len(program_df) = 2
    /\ program_df[1] = [id_ |-> 1, start |-> BadText, end |-> Text(MaxTime)]
    /\ now = 1
    /\ directory.event = "reload_timer"
    /\ directory.reloaded
    /\ directory.display_datetime = None
    /\ directory.items = <<2>>
    /\ PosterRoster(program_df, sheets, ScreenId, None, now).posters # <<>>

\* A sheet that is in the file and has no rows.
EmptySheet == [exists |-> TRUE, rows |-> <<>>]

\* The files with an empty sheet in the place of every missing one.
SheetsPresent == [i \in SessionIds |-> IF sheets[i].exists THEN sheets[i] ELSE EmptySheet]

\* No Screen ID cell of the file is blank.
NoBlankCell ==
    \A i \in SessionIds : \A j \in 1 .. Len(sheets[i].rows) : sheets[i].rows[j].screen_id # NaN

\* C23: a session whose sheet is missing from the file is still a key of the
\* program, with an empty list, and the lists and the indices of the other
\* sessions are those of the file where that sheet is there with no rows; the
\* roster of a screen is the roster of that file too, so that an ongoing
\* session with no sheet gives no poster and the ongoing sessions after it
\* give theirs.
C23_MissingSheetIsEmptySession ==
    /\ LET prog == PosterProgram(program_df, sheets)
       IN  /\ Len(prog.sessions) = Len(program_df)
           /\ Len(prog.lists) = Len(program_df)
           /\ \A i \in 1 .. Len(program_df) :
                ~sheets[program_df[i].id_].exists => prog.lists[i] = <<>>
           /\ prog = PosterProgram(program_df, SheetsPresent)
    /\ call.op = "PosterRoster" =>
           /\ call.result = PosterRoster(program_df, SheetsPresent,
                                         call.args[1], call.args[2], now)
           /\ NoBlankCell =>
                call.result.posters = matching_posters(1, call.args[1], call.args[2])

\* The roster of a time when two sessions are ongoing, the first with no
\* sheet in the file: it holds the posters of the second, which the program
\* numbers from 0.
C23_Witness ==
    /\ call.op = "PosterRoster"
    /\ Len(program_df) = 2
    /\ program_df[1].start = Text(1)
    /\ program_df[2].start = Text(1)
    /\ call.args[2] = 1
    /\ ~sheets[1].exists
    /\ sheets[2].exists
    /\ Len(call.result.posters) = MaxRows
    /\ call.result.session.row = 2
    /\ PosterProgram(program_df, sheets).lists[1] = <<>>
    /\ Len(PosterProgram(program_df, sheets).lists[2]) = MaxRows
    /\ PosterProgram(program_df, sheets).flattened[1].program_index = 0

\* The header after ScreenHeader.clear() and the two lines that follow it in
\* _load_roster: no portrait, no item in the table, an empty subtitle and
\* the placeholder QR code.
HeaderCleared(s) ==
    /\ s.header_portrait = NoPixmap
    /\ s.header_table = 0
    /\ s.header_subtitle = 0
    /\ s.header_qrcode = load_default_pixmaps[2]

\* C24: a load of the roster that finds no poster, in the constructor, on
\* the RELOAD key or in the periodic reload check, raises nothing and leaves
\* the slideshow STOPPED, the advance timer stopped, the placeholder poster
\* on display and the header cleared.
C24_EmptyRosterShowsPlaceholder ==
    (slideshow.reloaded /\ Len(slideshow.poster_roster.posters) = 0) =>
        /\ slideshow.raised = ""
        /\ ~slideshow.aborted
        /\ slideshow.status = "STOPPED"
        /\ slideshow.advance_timer = Inactive
        /\ slideshow.poster_label = load_default_pixmaps[1]
        /\ HeaderCleared(slideshow)

\* The RELOAD key on a paused slideshow, after the end of its session, has
\* found no poster.
C24_Witness ==
    /\ slideshow.reloaded
    /\ slideshow.event = "key"
    /\ KeyInt(slideshow.key) = RELOAD
    /\ Len(slideshow.poster_roster.posters) = 0
    /\ slideshow.resume_timer # Inactive
    /\ slideshow.highlighted_row # None

\* ------------------------------------------------------------------------
\* The image paths of a poster and the missing_*_image queries, on every
\* asset directory.
\* ------------------------------------------------------------------------
\* The decimal digits of a natural number.
RECURSIVE Decimal(_)
Decimal(n) == IF n < 10 THEN <<n>> ELSE Append(Decimal(n \div 10), n % 10)

\* The digits of n with zeros in front up to a width of three.
ZeroPadded(n) ==
    LET digits == Decimal(n)
    IN  [k \in 1 .. (3 - Len(digits)) |-> 0] \o digits

\* Friendly IDs of one, two and four digits.
PathIds == {7, 42, 1000}

\* The three asset roles: the folder and the placeholder of each.
Roles ==
    {<<"posters_raster", [folder |-> "graphics/pisameet2024.png", file |-> <<>>]>>,
     <<"presenters_crop", [folder |-> "graphics/unknown_female.png", file |-> <<>>]>>,
     <<"qrcodes", [folder |-> "graphics/unknown_qrcode.png", file |-> <<>>]>>}

\* The image files a directory may hold for these posters.
PathFiles ==
    {[folder |-> role[1], file |-> ZeroPadded(id)] : role \in Roles, id \in PathIds}

InitPaths ==
    /\ program_df = <<>>
    /\ sheets = [i \in SessionIds |-> MissingSheet]
    /\ assets \in SUBSET PathFiles
    /\ now = 0
    /\ magic_file = FALSE
    /\ marker_reloads = 0
    /\ program = NoProgram
    /\ slideshow = [aborted |-> TRUE]
    /\ browser = [aborted |-> TRUE]
    /\ directory = [aborted |-> TRUE]
    /\ call = NoCall

PosterImagePath ==
    /\ \E poster_id \in PathIds :
        call' = [op |-> "poster_image_path", args |-> <<poster_id>>,
                 result |-> poster_image_path(assets, poster_id)]
    /\ UNCHANGED <<files, now, program, windows>>

PresenterImagePath ==
    /\ \E poster_id \in PathIds :
        call' = [op |-> "presenter_image_path", args |-> <<poster_id>>,
                 result |-> presenter_image_path(assets, poster_id)]
    /\ UNCHANGED <<files, now, program, windows>>

QrcodeImagePath ==
    /\ \E poster_id \in PathIds :
        call' = [op |-> "qrcode_image_path", args |-> <<poster_id>>,
                 result |-> qrcode_image_path(assets, poster_id)]
    /\ UNCHANGED <<files, now, program, windows>>

MissingPosterImage ==
    /\ \E poster_id \in PathIds :
        call' = [op |-> "missing_poster_image", args |-> <<poster_id>>,
                 result |-> missing_poster_image(assets, poster_id)]
    /\ UNCHANGED <<files, now, program, windows>>

MissingPresenterImage ==
    /\ \E poster_id \in PathIds :
        call' = [op |-> "missing_presenter_image", args |-> <<poster_id>>,
                 result |-> missing_presenter_image(assets, poster_id)]
    /\ UNCHANGED <<files, now, program, windows>>

MissingQrcodeImage ==
    /\ \E poster_id \in PathIds :
        call' = [op |-> "missing_qrcode_image", args |-> <<poster_id>>,
                 result |-> missing_qrcode_image(assets, poster_id)]
    /\ UNCHANGED <<files, now, program, windows>>

NextPaths ==
    \/ PosterImagePath
    \/ PresenterImagePath
    \/ QrcodeImagePath
    \/ MissingPosterImage
    \/ MissingPresenterImage
    \/ MissingQrcodeImage

SpecPaths == InitPaths /\ [][NextPaths]_vars

\* The file of a poster for a role, and the path the role resolves to.
RoleFile(role, id) == [folder |-> role[1], file |-> ZeroPadded(id)]
RolePath(role, id) == IF RoleFile(role, id) \in assets THEN RoleFile(role, id) ELSE role[2]

\* The role an operation is about.
RoleOf(op) ==
    CHOOSE role \in Roles :
        role[1] = (IF op \in {"poster_image_path", "missing_poster_image"}
                   THEN "posters_raster"
                   ELSE IF op \in {"presenter_image_path", "missing_presenter_image"}
                   THEN "presenters_crop"
                   ELSE "qrcodes")

\* C25: for every poster and each of the three roles, the path is the file
\* named by the Friendly ID, padded with zeros to three digits, in the folder
\* of the role when the directory has that file, and the placeholder of the
\* role when it does not; missing_<role>_image is true exactly when the
\* directory does not have the file.
C25_ImagePathOrPlaceholder ==
    /\ call.op \in {"poster_image_path", "presenter_image_path", "qrcode_image_path"} =>
            call.result = RolePath(RoleOf(call.op), call.args[1])
    /\ call.op \in {"missing_poster_image", "missing_presenter_image",
                     "missing_qrcode_image"} =>
            (call.result <=> RoleFile(RoleOf(call.op), call.args[1]) \notin assets)

\* The presenter picture of poster 42 is asked for in a directory that has
\* its poster image and not its picture.
C25_Witness ==
    /\ call.op = "missing_presenter_image"
    /\ call.args = <<42>>
    /\ call.result = TRUE
    /\ [folder |-> "posters_raster", file |-> <<0, 4, 2>>] \in assets
    /\ [folder |-> "presenters_crop", file |-> <<0, 4, 2>>] \notin assets

\* The rows of the program sheet whose session is ongoing at t and has a
\* poster of screen_id in its sheet.
MatchingSessions(screen_id, t) ==
    {i \in 1 .. Len(program_df) :
        /\ ongoing(PosterSession(i, program_df[i]), t, now)
        /\ matching_rows(sheets[program_df[i].id_].rows, 1, screen_id) # <<>>}

\* C26: when two or more sessions ongoing at the reference time have a
\* poster of the screen of the roster, the roster holds the posters of the
\* screen of all of them and its session field is the last of these sessions
\* in the order of the program sheet; the session field is never an ongoing
\* session that has no poster of the screen.
C26_LastMatchingSessionWins ==
    call.op = "PosterRoster" =>
        LET matching == MatchingSessions(call.args[1], call.args[2])
        IN  /\ Cardinality(matching) >= 2 =>
                /\ call.result.posters = matching_posters(1, call.args[1], call.args[2])
                /\ call.result.session.row = CHOOSE i \in matching : \A k \in matching : k <= i
            /\ call.result.session.row \in matching \cup {0}

\* C27: when the last load of the directory found no ongoing session, so
\* that the reload deadline is None, a reload check raises nothing, with the
\* magic file and without it.
C27_CheckWithNoDeadline ==
    [][(DirectoryCheck /\ directory.reload_due = None) => directory'.raised = ""]_vars

\* C28: in a program with at least one poster, every expiry of the carousel
\* timer raises nothing and puts on display a poster of the program, also
\* when a session of the program has no poster.
C28_RandomPosterOfProgram ==
    [][(BrowserStep("carousel_timer") /\ Len(browser.program.flattened) >= 1) =>
        /\ browser'.raised = ""
        /\ browser'.current_poster \in 1 .. Len(browser.program.flattened)
      ]_vars

\* C29: once a callback of the slideshow is over, the advance timer is
\* active exactly when the status is RUNNING, and a PAUSED slideshow has its
\* resume timer active and its advance timer stopped.
C29_StatusAgreesWithTimers ==
    /\ slideshow.advance_timer # Inactive <=> slideshow.status = "RUNNING"
    /\ slideshow.status = "PAUSED" =>
            /\ slideshow.resume_timer # Inactive
            /\ slideshow.advance_timer = Inactive

\* The PAUSE key has paused a running slideshow.
C29_Witness ==
    /\ slideshow.event = "key"
    /\ KeyInt(slideshow.key) = PAUSE
    /\ slideshow.raised = ""
    /\ slideshow.status = "PAUSED"
    /\ slideshow.resume_timer = PauseInterval
    /\ slideshow.advance_timer = Inactive
    /\ Len(slideshow.poster_roster.posters) >= 2

\* n presses of ADVANCE from index i of a roster of n posters.
RECURSIVE AdvanceTimes(_, _, _)
AdvanceTimes(i, n, times) ==
    IF times = 0 THEN i ELSE AdvanceTimes(PyMod(i + 1, n), n, times - 1)

\* C30: on a slideshow of n >= 2 posters that is RUNNING or PAUSED at index
\* i, the ADVANCE key puts poster (i+1) mod n on display and the BACKUP key
\* poster (i-1) mod n, raising nothing, and the slideshow is RUNNING
\* afterwards; so BACKUP after ADVANCE gives index i again, and so do n
\* presses of ADVANCE.
C30_AdvanceBackupModulo ==
    [][(/\ SlideShowStep("key")
        /\ slideshow.status \in {"RUNNING", "PAUSED"}
        /\ Len(slideshow.poster_roster.posters) >= 2
        /\ slideshow'.key \in VALID_KEYS
        /\ KeyInt(slideshow'.key) \in {ADVANCE, BACKUP}) =>
            LET n == Len(slideshow.poster_roster.posters)
                i == slideshow.current_index
                j == IF KeyInt(slideshow'.key) = ADVANCE THEN PyMod(i + 1, n)
                                                         ELSE PyMod(i - 1, n)
            IN  /\ slideshow'.raised = ""
                /\ slideshow'.current_index = j
                /\ slideshow'.poster_label = slideshow.poster_roster.posters[j + 1].poster_pixmap
                /\ slideshow'.status = "RUNNING"
                /\ PyMod(PyMod(i + 1, n) - 1, n) = i
                /\ AdvanceTimes(i, n, n) = i
      ]_vars

\* C31: a reload check of the slideshow that finds no magic file loads the
\* roster again only when the session of the roster is not ongoing at the
\* reference time of the roster (the display date, or the wall clock when
\* none was given); when the session is ongoing at that time the check
\* leaves the roster, the index and the status as they were.
C31_ReloadWhenSessionOver ==
    [][(SlideShowStep("reload_timer") /\ ~magic_file) =>
        LET session == slideshow.poster_roster.session
            during  == /\ session # NoSession
                       /\ ongoing(session, slideshow.display_datetime, now)
        IN  /\ slideshow'.reloaded => ~during
            /\ during => /\ slideshow'.poster_roster = slideshow.poster_roster
                          /\ slideshow'.current_index = slideshow.current_index
                          /\ slideshow'.status = slideshow.status
      ]_vars

\* C32: whenever the roster of the slideshow is not empty the index is one
\* of its places, 0 <= index < len(roster), whatever keys, timeouts and
\* reloads came before; and right after a load that found posters the index
\* is 0.
C32_IndexWithinRoster ==
    Len(slideshow.poster_roster.posters) > 0 =>
        /\ slideshow.current_index >= 0
        /\ slideshow.current_index < Len(slideshow.poster_roster.posters)
        /\ slideshow.reloaded => slideshow.current_index = 0

\* The reload check has replaced a roster, shown at its last place, by a
\* shorter one of two posters or more.
C32_Witness ==
    /\ slideshow.event = "reload_timer"
    /\ slideshow.reloaded
    /\ slideshow.highlighted_row # None
    /\ slideshow.highlighted_row > Len(slideshow.poster_roster.posters)
    /\ Len(slideshow.poster_roster.posters) >= 2
    /\ slideshow.current_index = 0

\* C33: a RUNNING slideshow has a roster of two posters or more, and no
\* advance, from the advance timer, the resume timer or a key, is made on an
\* empty roster (it would raise ZeroDivisionError).
C33_RunningHasTwoPosters ==
    /\ slideshow.status = "RUNNING" => Len(slideshow.poster_roster.posters) >= 2
    /\ slideshow.raised # "ZeroDivisionError"

\* C34: the expiry of the resume timer on a slideshow that is RUNNING
\* already changes nothing: the index, the poster on display, the status,
\* the roster and the advance timer stay, and nothing is raised.
C34_ResumeWhenRunningIsIdle ==
    [][(SlideShowStep("resume_timer") /\ slideshow.status = "RUNNING") =>
        /\ slideshow'.raised = ""
        /\ slideshow'.status = "RUNNING"
        /\ slideshow'.current_index = slideshow.current_index
        /\ slideshow'.poster_label = slideshow.poster_label
        /\ slideshow'.highlighted_row = slideshow.highlighted_row
        /\ slideshow'.poster_roster = slideshow.poster_roster
        /\ slideshow'.advance_timer = slideshow.advance_timer
        /\ slideshow'.reload_timer = slideshow.reload_timer
        /\ slideshow'.resume_timer = Inactive
      ]_vars

\* The resume timer has expired on a RUNNING slideshow whose advance timer
\* is due at the same instant: a resume from PAUSED would have started it
\* afresh.
C34_Witness ==
    /\ slideshow.event = "resume_timer"
    /\ slideshow.raised = ""
    /\ slideshow.status = "RUNNING"
    /\ slideshow.advance_timer = 0
    /\ slideshow.resume_timer = Inactive
    /\ Len(slideshow.poster_roster.posters) >= 2

\* C35: at every moment the posters of the program that hold a pixmap are at
\* most one, the current poster of the browser; and in CAROUSEL and in
\* POSTER_VIEW the current poster has its three pixmaps loaded, also when the
\* poster put on display is the one that was on display before.
C35_OnlyCurrentPosterLoaded ==
    /\ \A a \in 1 .. Len(browser.program.flattened) :
            ~Unloaded(browser.program.flattened[a]) => browser.current_poster = a
    /\ browser.status \in {"CAROUSEL", "POSTER_VIEW"} =>
            /\ browser.current_poster \in 1 .. Len(browser.program.flattened)
            /\ Loaded(browser.program.flattened[browser.current_poster])

\* The carousel has drawn the only poster of the program once more, with
\* another session that has none.
C35_Witness ==
    /\ browser.event = "carousel_timer"
    /\ browser.raised = ""
    /\ browser.status = "CAROUSEL"
    /\ Len(browser.program.flattened) = 1
    /\ browser.current_poster = 1
    /\ Loaded(browser.program.flattened[1])

SpecBrowserLive ==
    /\ InitBrowser
    /\ [][NextBrowser]_vars
    /\ WF_vars(BrowserTick)
    /\ WF_vars(CarouselTimeout)
    /\ WF_vars(ToggleTimeout)

\* C37: if from some moment on no key is pressed, the browser ends up in
\* CAROUSEL and stays there for ever: POSTER_VIEW gives way to TREE_VIEW at
\* the expiry of the toggle timer, and TREE_VIEW to CAROUSEL at the next.
C37_EventuallyCarousel ==
    <>[][~BrowserStep("key")]_vars => <>[](browser.status = "CAROUSEL")

\* The toggle timer has expired in the tree view, left by a key press with a
\* poster selected, and the carousel has started.
C37_Witness ==
    /\ browser.event = "toggle_timer"
    /\ browser.raised = ""
    /\ browser.status = "CAROUSEL"
    /\ browser.carousel_timer = AdvanceInterval
    /\ browser.current_item.child # 0

\* C38: the poster on display in CAROUSEL and in POSTER_VIEW, drawn by the
\* carousel, selected as a leaf or reached with the next and previous keys,
\* has its poster image in the directory, and is a leaf of the tree.
C38_DisplayedPosterHasImage ==
    (browser.status \in {"CAROUSEL", "POSTER_VIEW"} /\ browser.poster_label_visible) =>
        LET poster == browser.program.flattened[browser.current_poster]
        IN  /\ ~missing_poster_image(assets, poster.friendly_id)
            /\ \E k \in 1 .. Len(browser.items[poster.session]) :
                    browser.items[poster.session][k] = browser.current_poster

\* ------------------------------------------------------------------------
\* The session directory with a reload timer that does fire; the wall clock
\* is left free, so that a session may last any number of reload intervals.
\* ------------------------------------------------------------------------
SpecDirectoryLive ==
    /\ InitDirectory
    /\ [][NextDirectory]_vars
    /\ WF_vars(DirectoryTick)
    /\ WF_vars(DirectoryReloadTimeout)

\* Row i of the program sheet is a session ongoing at the wall clock, is a
\* session that ended before it, is listed by the directory.
OngoingNow(i) ==
    /\ i <= Len(program_df)
    /\ ongoing(PosterSession(i, program_df[i]), None, now)
EndedNow(i) ==
    /\ i <= Len(program_df)
    /\ program_df[i].end.ok
    /\ program_df[i].end.t < now
Listed(i) == \E k \in 1 .. Len(directory.items) : directory.items[k] = i

\* C39: a directory that runs on the wall clock, with no magic file ever
\* created, ends up listing every session that is ongoing, unless the session
\* ends first, both when its last load found other sessions that go on (the
\* deadline is ahead) and when it found none (there is no deadline); and it
\* ends up not listing a session that has ended.
C39_DirectoryFollowsClock ==
    \A i \in SessionIds :
        /\ (/\ directory.display_datetime = None
            /\ OngoingNow(i)
            /\ directory.reload_due = None \/ now < directory.reload_due)
                ~> (Listed(i) \/ ~OngoingNow(i) \/ magic_file)
        /\ (directory.display_datetime = None /\ Listed(i) /\ EndedNow(i))
                ~> (~Listed(i) \/ magic_file)

\* C40: the session field of a roster is None exactly when the roster holds
\* no poster; when it is set, it is a session of the program sheet that is
\* ongoing at the reference time of the roster and whose sheet has a row of
\* the screen that is a poster of the roster.
C40_SessionSetIffPosters ==
    call.op = "PosterRoster" =>
        LET roster  == call.result
            session == roster.session
        IN  /\ session = NoSession <=> roster.posters = <<>>
            /\ session # NoSession =>
                /\ session.row \in 1 .. Len(program_df)
                /\ session = PosterSession(session.row, program_df[session.row])
                /\ ongoing(session, call.args[2], now)
                /\ \E k \in 1 .. Len(sheets[session.id_].rows) :
                        /\ sheets[session.id_].rows[k].screen_id = call.args[1]
                        /\ \E j \in 1 .. Len(roster.posters) :
                                roster.posters[j] = Poster(sheets[session.id_].rows[k])

\* The roster of a screen at a time when two sessions are ongoing and only
\* the first has a poster of the screen: the session field is the first.
C40_Witness ==
    /\ call.op = "PosterRoster"
    /\ Len(program_df) = 2
    /\ ongoing(PosterSession(1, program_df[1]), call.args[2], now)
    /\ ongoing(PosterSession(2, program_df[2]), call.args[2], now)
    /\ sheets[2].exists
    /\ \A k \in 1 .. Len(sheets[2].rows) : sheets[2].rows[k].screen_id # call.args[1]
    /\ call.result.posters # <<>>
    /\ call.result.session.row = 1

====
